---------------------------- MODULE Spec2Model ----------------------------
(***************************************************************************)
(* Model of gko::matrix::Csr (include/ginkgo/core/matrix/csr.hpp) and of   *)
(* gko::detail::zip_iterator as core/test/base/iterator_factory.cpp uses   *)
(* it.  Of Csr: the                                                        *)
(* strategy hierarchy (classical, merge_path, cusparse, sparselib,         *)
(* load_balance, automatical), the srow table they size and build, and the *)
(* Csr store that owns the arrays and the active strategy.                 *)
(*                                                                         *)
(* Arrays of index_type are sequences; the C index i is the TLA+ index     *)
(* i + 1.  The values_ and col_idxs_ arrays are never read element-wise by *)
(* the code modelled here, so an Array of them is the record               *)
(* [n |-> length, tag |-> identity of the contents].                       *)
(***************************************************************************)
EXTENDS Integers, Sequences, FiniteSets, TLC

VARIABLES
    hcc,      \* the build's GINKGO_HIP_PLATFORM_HCC (csr.hpp:326)
    stores,   \* the Csr objects: store id -> record
    heap,     \* the strategy objects behind the shared_ptrs: id -> record
    fault,    \* how the last store operation ended: "ok", an exception, a trap
    last,     \* the last store operation and its arguments
    call,     \* a direct call of a strategy method: its arguments
    ret,      \* ... and what it returned
    vec1,     \* the first array under a zip_iterator (the keys)
    vec2,     \* the second array under it
    zip,      \* the operation running on the zip_iterator over vec1, vec2
    ndebug    \* the build's NDEBUG: assert() compiled out

vars == <<hcc, stores, heap, fault, last, call, ret, vec1, vec2, zip,
          ndebug>>

\* the variables of the zip_iterator
zipvars == <<vec1, vec2, zip, ndebug>>

---------------------------------------------------------------------------
(* Bounds of the model *)

\* most rows of a matrix
MaxRows == 3
\* longest srow handed to process() directly
MaxSrow == 3

---------------------------------------------------------------------------
(* gko helpers (ginkgo/core/base/math.hpp) and C++ integer arithmetic *)

Abs(a) == IF a < 0 THEN -a ELSE a

\* C++ operator/ on signed integers: the quotient truncated towards zero
TruncDiv(a, b) ==
    IF (a >= 0) = (b > 0) THEN Abs(a) \div Abs(b) ELSE -(Abs(a) \div Abs(b))

\* gko::ceildiv(num, den), den # 0
ceildiv(num, den) == TruncDiv(num + den - 1, den)

min(a, b) == IF a < b THEN a ELSE b

max(a, b) == IF a >= b THEN a ELSE b

---------------------------------------------------------------------------
(* The strategy classes *)

StatelessKinds == {"classical", "merge_path", "cusparse", "sparselib"}

\* strategy_type(name) with no data: classical(), merge_path(), cusparse(),
\* sparselib()
stateless(kind) ==
    [kind |-> kind, name |-> kind, nwarps_ |-> 0, warp_size_ |-> 0,
     cuda_strategy_ |-> TRUE]

\* load_balance(nwarps, warp_size = 32, cuda_strategy = true)
load_balance(nwarps, warp_size, cuda_strategy) ==
    [kind |-> "load_balance", name |-> "load_balance", nwarps_ |-> nwarps,
     warp_size_ |-> warp_size, cuda_strategy_ |-> cuda_strategy]

\* automatical(nwarps, warp_size = 32, cuda_strategy = true)
automatical(nwarps, warp_size, cuda_strategy) ==
    [kind |-> "automatical", name |-> "automatical", nwarps_ |-> nwarps,
     warp_size_ |-> warp_size, cuda_strategy_ |-> cuda_strategy]

\* cuda_multiple with the thresholds compared by > instead of >=
cuda_multiple_exclusive(nnz) ==
    IF nnz > 2000000 THEN 128 ELSE IF nnz > 200000 THEN 32 ELSE 8

\* the multiple of load_balance::clac_size for the CUDA tuning
cuda_multiple(nnz) ==
    IF nnz >= 2000000 THEN 128 ELSE IF nnz >= 200000 THEN 32 ELSE 8

\* the multiple of load_balance::clac_size for the HIP tuning, compiled in
\* only under GINKGO_HIP_PLATFORM_HCC
hip_multiple(nnz) ==
    IF nnz >= 10000000 THEN 64 ELSE IF nnz >= 1000000 THEN 16 ELSE 8

\* use_hip_multiple without the #if GINKGO_HIP_PLATFORM_HCC around it
use_hip_multiple_any_build(platform_hcc, cuda_strategy) == ~cuda_strategy

\* which tuning load_balance::clac_size applies
use_hip_multiple(platform_hcc, cuda_strategy) ==
    platform_hcc /\ ~cuda_strategy

\* load_balance::clac_size without the test of warp_size_: the bound by
\* the number of warps alone when there is no warp size to divide by
load_balance_clac_size_unguarded(s, nnz, platform_hcc) ==
    IF s.warp_size_ > 0
    THEN LET m == IF use_hip_multiple(platform_hcc, s.cuda_strategy_)
                  THEN hip_multiple(nnz)
                  ELSE cuda_multiple(nnz)
         IN  IF TruncDiv(nnz + s.warp_size_ - 1, s.warp_size_) < s.nwarps_ * m
             THEN TruncDiv(nnz + s.warp_size_ - 1, s.warp_size_)
             ELSE s.nwarps_ * m
    ELSE s.nwarps_ * cuda_multiple(nnz)

\* load_balance::clac_size
load_balance_clac_size(s, nnz, platform_hcc) ==
    IF s.warp_size_ > 0
    THEN LET multiple ==
                 IF use_hip_multiple(platform_hcc, s.cuda_strategy_)
                 THEN hip_multiple(nnz)
                 ELSE cuda_multiple(nnz)
             nwarps == s.nwarps_ * multiple
         IN  min(ceildiv(nnz, s.warp_size_), nwarps)
    ELSE 0

\* automatical::clac_size: that of a load_balance with the same parameters
automatical_clac_size(s, nnz, platform_hcc) ==
    load_balance_clac_size(
        load_balance(s.nwarps_, s.warp_size_, s.cuda_strategy_), nnz,
        platform_hcc)

\* strategy_type::clac_size, dispatched on the dynamic type
clac_size(s, nnz, platform_hcc) ==
    CASE s.kind = "load_balance" -> load_balance_clac_size(s, nnz, platform_hcc)
      [] s.kind = "automatical" -> automatical_clac_size(s, nnz, platform_hcc)
      [] OTHER -> 0

---------------------------------------------------------------------------
(* process(): building srow *)

\* What a call of process() can end as.  status is "ok" when the call
\* returned and "trap" when the process was killed in it; divzero and oob
\* record that the call executed an integer division by zero or read
\* row_ptrs outside [0, get_num_elems()).  name is the strategy's name_
\* after the call.
Outcome(status, divzero, oob, srow, name) ==
    [status |-> status, divzero |-> divzero, oob |-> oob, srow |-> srow,
     name |-> name]

\* the outcome of an operation that runs no process()
NoOutcome == Outcome("ok", FALSE, FALSE, <<>>, "")

\* a strategy slot no shared_ptr points to
Free == [kind |-> "free", name |-> "", nwarps_ |-> 0, warp_size_ |-> 0,
         cuda_strategy_ |-> TRUE]

\* the size and the array lengths a constructor from arrays was given
Arrays(rows, values_n, col_idxs_n, row_ptrs_n) ==
    [rows |-> rows, values |-> values_n, col_idxs |-> col_idxs_n,
     row_ptrs |-> row_ptrs_n]

\* no constructor from arrays
NoArrays == Arrays(0, 0, 0, 0)

\* no strategy argument: the null shared_ptr
NoArg == [sid |-> 0, s |-> Free]

\* the record kept of the last operation on a store: which, on which store,
\* whether it divided by zero or read row_ptrs out of bounds, and the
\* strategy argument of a set_strategy (the shared_ptr sid and its object s)
LastOpWith(op, id, r, arg) ==
    [op |-> op, store |-> id, divzero |-> r.divzero, oob |-> r.oob,
     arg |-> arg, given |-> NoArrays]

\* the same of an operation whose strategy argument is not kept
LastOp(op, id, r) == LastOpWith(op, id, r, NoArg)

\* the same of a constructor from arrays, with what it was given
LastCreateFromArrays(id, r, given) ==
    [LastOp("create_from_arrays", id, r) EXCEPT !.given = given]

\* What undefined behaviour may do: kill the process (trap), or carry on
\* with some value (val) as the result of the undefined operation.
UBOutcomes ==
    {[trap |-> TRUE, val |-> 0], [trap |-> FALSE, val |-> 0],
     [trap |-> FALSE, val |-> 2000000]}

\* unsigned comparison bucket < nwarps of an int64 with a size_type: a
\* negative bucket converts to a value above every table length
unsigned_less(bucket, nwarps) == bucket >= 0 /\ bucket < nwarps

\* zero_fill left out: srow keeps what it held
zero_fill_skipped(srow) == srow

\* the loop `for i in [0, nwarps): srow[i] = 0`
zero_fill(srow) == [i \in 1..Len(srow) |-> 0]

\* the loop `for i in [i, num_rows): if (bucket < nwarps) srow[bucket]++`
RECURSIVE count_rows(_, _, _, _)
count_rows(srow, i, num_rows, bucket_of) ==
    IF i >= num_rows THEN srow
    ELSE LET bucket == bucket_of[i]
         IN  count_rows(
                 IF unsigned_less(bucket, Len(srow))
                 THEN [srow EXCEPT ![bucket + 1] = @ + 1]
                 ELSE srow,
                 i + 1, num_rows, bucket_of)

\* starting_rows left out: srow keeps the count of each bucket
starting_rows_skipped(srow, i) == srow

\* the loop `for i in [i, nwarps): srow[i] += srow[i - 1]`
RECURSIVE starting_rows(_, _)
starting_rows(srow, i) ==
    IF i >= Len(srow) THEN srow
    ELSE starting_rows([srow EXCEPT ![i + 1] = @ + srow[i]], i + 1)

\* a bucket computed from where row i starts, row_ptrs[i], instead of where
\* it ends
load_balance_bucket_of_row_start(row_ptrs, i, warp_size, nwarps, quotient) ==
    LET num_elems == row_ptrs[Len(row_ptrs)]
    IN  IF warp_size = 0 THEN quotient
        ELSE IF ceildiv(num_elems, warp_size) = 0 THEN quotient
        ELSE ceildiv(ceildiv(row_ptrs[i + 1], warp_size) * nwarps,
                     ceildiv(num_elems, warp_size))

\* the bucket load_balance::process computes for row i; quotient stands for
\* the result of a division by zero that did not trap
load_balance_bucket(row_ptrs, i, warp_size, nwarps, quotient) ==
    LET num_elems == row_ptrs[Len(row_ptrs)]
    IN  IF warp_size = 0 THEN quotient
        ELSE IF ceildiv(num_elems, warp_size) = 0 THEN quotient
        ELSE ceildiv(ceildiv(row_ptrs[i + 2], warp_size) * nwarps,
                     ceildiv(num_elems, warp_size))

\* load_balance::process
load_balance_process(s, row_ptrs, srow, ub) ==
    LET nwarps == Len(srow)
        zeroed == zero_fill(srow)
    IN  IF nwarps = 0 THEN Outcome("ok", FALSE, FALSE, srow, s.name)
        ELSE IF Len(row_ptrs) = 0
        THEN \* num_rows = get_num_elems() - 1 wraps to the largest size_type:
             \* row_ptrs[num_rows] and every row_ptrs[i + 1] are out of bounds
             IF ub.trap THEN Outcome("trap", FALSE, TRUE, zeroed, s.name)
             ELSE Outcome("ok", FALSE, TRUE,
                          [i \in 1..nwarps |-> ub.val], s.name)
        ELSE LET num_rows == Len(row_ptrs) - 1
                 num_elems == row_ptrs[num_rows + 1]
                 divzero == num_rows > 0 /\
                            (s.warp_size_ = 0 \/
                             ceildiv(num_elems, s.warp_size_) = 0)
                 bucket_of == [i \in 0..(num_rows - 1) |->
                                  load_balance_bucket(row_ptrs, i, s.warp_size_,
                                                      nwarps, ub.val)]
             IN  IF divzero /\ ub.trap
                 THEN Outcome("trap", TRUE, FALSE, zeroed, s.name)
                 ELSE Outcome("ok", divzero, FALSE,
                              starting_rows(
                                  count_rows(zeroed, 0, num_rows, bucket_of), 1),
                              s.name)

\* the loop `for i in [i, num_rows + 1): maxnum = max(maxnum, row_ptrs[i] -
\* row_ptrs[i - 1])` of automatical::process
RECURSIVE max_row_length(_, _, _)
max_row_length(row_ptrs, i, maxnum) ==
    IF i >= Len(row_ptrs) THEN maxnum
    ELSE max_row_length(row_ptrs, i + 1,
                        max(maxnum, row_ptrs[i + 1] - row_ptrs[i]))

\* automatical_actual_strategy with the threshold on the stored elements
\* compared by >= instead of >
automatical_actual_strategy_inclusive(s, total, maxnum) ==
    IF total >= 1000000 THEN load_balance(s.nwarps_, 32, TRUE)
    ELSE IF maxnum > 64 THEN load_balance(s.nwarps_, 32, TRUE)
    ELSE stateless("classical")

\* the strategy automatical::process delegates to and adopts the name of
automatical_actual_strategy(s, total, maxnum) ==
    IF total > 1000000 THEN load_balance(s.nwarps_, 32, TRUE)
    ELSE IF maxnum > 64 THEN load_balance(s.nwarps_, 32, TRUE)
    ELSE stateless("classical")

\* automatical::process
automatical_process(s, row_ptrs, srow, ub) ==
    LET oob == Len(row_ptrs) = 0
        \* row_ptrs[num_rows]; with no element, num_rows wraps and the read
        \* is out of bounds
        total == IF oob THEN ub.val ELSE row_ptrs[Len(row_ptrs)]
        actual == automatical_actual_strategy(
                      s, total, max_row_length(row_ptrs, 1, 0))
    IN  IF oob /\ ub.trap
        THEN Outcome("trap", FALSE, TRUE, srow, s.name)
        ELSE IF actual.kind = "load_balance"
        THEN LET r == load_balance_process(actual, row_ptrs, srow, ub)
             IN  Outcome(r.status, r.divzero, oob \/ r.oob, r.srow,
                         IF r.status = "ok" THEN actual.name ELSE s.name)
        ELSE Outcome("ok", FALSE, oob, srow, actual.name)

\* process with the classical, merge_path, cusparse and sparselib process()
\* clearing srow instead of leaving it
process_clearing(s, row_ptrs, srow, ub) ==
    CASE s.kind = "load_balance" -> load_balance_process(s, row_ptrs, srow, ub)
      [] s.kind = "automatical" -> automatical_process(s, row_ptrs, srow, ub)
      [] OTHER -> Outcome("ok", FALSE, FALSE, zero_fill(srow), s.name)

\* strategy_type::process, dispatched on the dynamic type
process(s, row_ptrs, srow, ub) ==
    CASE s.kind = "load_balance" -> load_balance_process(s, row_ptrs, srow, ub)
      [] s.kind = "automatical" -> automatical_process(s, row_ptrs, srow, ub)
      [] OTHER -> Outcome("ok", FALSE, FALSE, srow, s.name)

---------------------------------------------------------------------------
(* The zip iterator (core/base/iterator_factory.hpp): a cursor over two    *)
(* arrays of one length.  Position p (from 0) is the TLA+ index p + 1.     *)

\* the value_type of the iterator: the tuple read at one position
Tuple(key, value) == <<key, value>>

\* a snapshot that copies the element of the first array only
snapshot_key_only(a1, a2, p) == Tuple(a1[p + 1], 0)

\* static_cast<value_type>(*(it + p)): a copy of what the two arrays hold at
\* position p
snapshot(a1, a2, p) == Tuple(a1[p + 1], a2[p + 1])

\* assign writing the first array only
assign_first_only(a1, a2, q, tuple) ==
    [vec1 |-> [a1 EXCEPT ![q + 1] = tuple[1]], vec2 |-> a2]

\* *(it + q) = tuple, or *(it + q) = *(it + p) with tuple the snapshot of
\* p: every field is written to its array at position q
assign(a1, a2, q, tuple) ==
    [vec1 |-> [a1 EXCEPT ![q + 1] = tuple[1]],
     vec2 |-> [a2 EXCEPT ![q + 1] = tuple[2]]]

\* swap exchanging the elements of the first array only
swap_first_only(a1, a2, p, q) ==
    [vec1 |-> [a1 EXCEPT ![p + 1] = a1[q + 1], ![q + 1] = a1[p + 1]],
     vec2 |-> a2]

\* swap(*(it + p), *(it + q)): the elements at p and q change places in
\* both arrays
swap(a1, a2, p, q) ==
    [vec1 |-> [a1 EXCEPT ![p + 1] = a1[q + 1], ![q + 1] = a1[p + 1]],
     vec2 |-> [a2 EXCEPT ![p + 1] = a2[q + 1], ![q + 1] = a2[p + 1]]]

\* operator< as std::tuple has it: by the first elements, then the second
less_whole_tuple(x, y) == x[1] < y[1] \/ (x[1] = y[1] /\ x[2] < y[2])

\* operator< of references and tuples: by the element of the first array
less(x, y) == x[1] < y[1]

\* make_zip_iterator(first, second): the cursor made of one base cursor into
\* each array; a base cursor is the offset of its element in its array
make_zip_iterator(first, second) == [it1 |-> first, it2 |-> second]

\* it + n, it - (-n), and n applications of ++ or --: every base cursor
\* moves by n
plus(it, n) == make_zip_iterator(it.it1 + n, it.it2 + n)

\* n + it
plus_rev(n, it) == plus(it, n)

\* it - n
minus(it, n) == plus(it, -n)

\* the assertion of the operations on two cursors: every base cursor of a
\* is as far from that of b as the first is
consistent(a, b) == a.it1 - b.it1 = a.it2 - b.it2

\* a - b of two base cursors of the array k
base_difference(a, b, k) == IF k = 1 THEN a.it1 - b.it1 ELSE a.it2 - b.it2

\* a difference taken the wrong way round
difference_reversed(a, b) == base_difference(b, a, 1)

\* a - b: the distance of the first base cursors
difference(a, b) == base_difference(a, b, 1)

\* the comparison operators of the cursors
Relations == {"==", "!=", "<", "<=", ">", ">="}

\* the relation rel between the distance d of two cursors and 0
relation(rel, d) ==
    CASE rel = "==" -> d = 0
      [] rel = "!=" -> d # 0
      [] rel = "<"  -> d < 0
      [] rel = "<=" -> d <= 0
      [] rel = ">"  -> d > 0
      [] rel = ">=" -> d >= 0

\* a rel b of two cursors: decided by the first base cursors
compare(rel, a, b) == relation(rel, difference(a, b))

\* a build that compiles the assertion out of every operation
passes_check_elided(a, b, nd) == TRUE

\* whether an operation on the cursors a and b goes on: the assertion is
\* compiled out (NDEBUG) or it holds
passes_check(a, b, nd) == nd \/ consistent(a, b)

\* no operation on a zip iterator
NoZip == [op |-> "none", pc |-> "idle", i |-> 0, j |-> 0, temp |-> <<>>,
          p |-> 0, q |-> 0, from1 |-> <<>>, from2 |-> <<>>,
          deref |-> FALSE, truth |-> <<>>,
          it |-> make_zip_iterator(0, 0), other |-> make_zip_iterator(0, 0),
          was |-> make_zip_iterator(0, 0),
          returned |-> make_zip_iterator(0, 0), n |-> 0, diff |-> 0,
          rel |-> ""]

\* no zip iterator exists
NoZipIterator == vec1 = <<>> /\ vec2 = <<>> /\ zip = NoZip /\ ndebug = FALSE

---------------------------------------------------------------------------
(* Inputs of the model *)

\* nwarps and warp_size a caller may construct a strategy with
NwarpsSamples == {-1, 0, 1, 2}

WarpSizeSamples == {-1, 0, 1, 2, 32}

\* every strategy object a caller can construct from these
Strategies ==
    {stateless(k) : k \in StatelessKinds}
    \cup {load_balance(n, w, c) :
              n \in NwarpsSamples, w \in WarpSizeSamples, c \in BOOLEAN}
    \cup {automatical(n, w, c) :
              n \in NwarpsSamples, w \in WarpSizeSamples, c \in BOOLEAN}

\* numbers of nonzeros, around every threshold of clac_size
NnzSamples ==
    {0, 1, 2, 3, 31, 32, 33, 100, 199999, 200000, 200001, 999999, 1000000,
     1999999, 2000000, 9999999, 10000000, 20000000}

\* lengths of one row, around the thresholds of automatical::process
RowLengths == {0, 1, 3, 65, 1000001}

\* the row pointers of a matrix with these row lengths
RECURSIVE RowPtrsOf(_)
RowPtrsOf(lens) ==
    IF lens = <<>> THEN <<0>>
    ELSE LET front == RowPtrsOf(SubSeq(lens, 1, Len(lens) - 1))
         IN  Append(front, front[Len(front)] + lens[Len(lens)])

\* all sequences over S of length n
SeqsOfLen(S, n) == [1..n -> S]

\* row pointers at the thresholds of automatical::process: the last rows of
\* a matrix of 1000000 and of 1000001 stored elements whose rows hold 64,
\* a row of 64, and four rows of which one holds 100
ThresholdRowPtrs ==
    {<<999936, 1000000>>, <<999937, 1000001>>, <<0, 64>>,
     <<0, 0, 100, 100, 100>>}

\* row pointer arrays: the empty array of a matrix created with no rows
\* (csr.hpp:721), and the row pointers of every matrix of up to MaxRows rows
RowPtrsSamples ==
    {<<>>} \cup ThresholdRowPtrs \cup
    UNION {{RowPtrsOf(lens) : lens \in SeqsOfLen(RowLengths, n)} :
               n \in 0..MaxRows}

\* srow arrays handed to process(): any length up to MaxSrow, holding zeros
\* or what an earlier build or an uninitialised allocation left there
SrowSamples ==
    UNION {{[i \in 1..k |-> 0], [i \in 1..k |-> 7]} : k \in 0..MaxSrow}

\* strategies process() is called on directly: process() reads warp_size_
\* only, and only load_balance reads it
ProcessStrategies ==
    {stateless(k) : k \in StatelessKinds}
    \cup {load_balance(1, w, TRUE) : w \in WarpSizeSamples \ {-1}}
    \cup {automatical(1, w, TRUE) : w \in WarpSizeSamples \ {-1}}

---------------------------------------------------------------------------
(* Direct calls of the strategy methods *)

NoRet == [status |-> "none", divzero |-> FALSE, oob |-> FALSE, srow |-> <<>>,
          name |-> "", size |-> 0]

NoCall == [op |-> "none", s |-> stateless("classical"), nnz |-> 0,
           row_ptrs |-> <<>>, srow |-> <<>>]

ClacSizeCalls ==
    {[op |-> "clac_size", s |-> s, nnz |-> n, row_ptrs |-> <<>>,
      srow |-> <<>>] : s \in Strategies, n \in NnzSamples}

ProcessCalls ==
    {[op |-> "process", s |-> s, nnz |-> 0, row_ptrs |-> r, srow |-> t] :
         s \in ProcessStrategies, r \in RowPtrsSamples, t \in SrowSamples}

\* no store exists while the strategy methods are called directly
NoStores == <<>>

InitStrategy ==
    /\ hcc \in BOOLEAN
    /\ call \in ClacSizeCalls \cup ProcessCalls
    /\ ret = NoRet
    /\ stores = NoStores
    /\ heap = <<>>
    /\ fault = "ok"
    /\ last = LastOp("none", "mtx", NoOutcome)
    /\ NoZipIterator

\* s->clac_size(nnz)
CallClacSize ==
    /\ call.op = "clac_size"
    /\ ret = NoRet
    /\ ret' = [NoRet EXCEPT !.status = "ok", !.name = call.s.name,
                            !.size = clac_size(call.s, call.nnz, hcc)]
    /\ UNCHANGED <<hcc, stores, heap, fault, last, call, vec1, vec2, zip,
                 ndebug>>

\* s->process(row_ptrs, &srow)
CallProcess ==
    /\ call.op = "process"
    /\ ret = NoRet
    /\ \E ub \in UBOutcomes :
           LET r == process(call.s, call.row_ptrs, call.srow, ub)
           IN  ret' = [status |-> r.status, divzero |-> r.divzero,
                       oob |-> r.oob, srow |-> r.srow, name |-> r.name,
                       size |-> 0]
    /\ UNCHANGED <<hcc, stores, heap, fault, last, call, vec1, vec2, zip,
                 ndebug>>

NextStrategy == CallClacSize \/ CallProcess

SpecStrategy == InitStrategy /\ [][NextStrategy]_vars

---------------------------------------------------------------------------
(* Executors: where a Csr lives, and what a device says of itself *)

Executors == {"reference", "omp", "cuda", "hip"}

is_cuda(exec) == exec = "cuda"

is_hip(exec) == exec = "hip"

\* exec->get_master(): the host executor behind a device
get_master(exec) == IF exec \in {"cuda", "hip"} THEN "omp" ELSE exec

\* exec->get_num_warps() of the devices of the model
get_num_warps(exec) == IF is_cuda(exec) THEN 2 ELSE 3

\* exec->get_warp_size() of the devices of the model
get_warp_size(exec) == IF is_cuda(exec) THEN 32 ELSE 64

\* load_balance(std::shared_ptr<const CudaExecutor>) and
\* load_balance(std::shared_ptr<const HipExecutor>)
load_balance_on(exec) ==
    IF is_hip(exec)
    THEN load_balance(get_num_warps(exec), get_warp_size(exec), FALSE)
    ELSE load_balance(get_num_warps(exec), get_warp_size(exec), TRUE)

\* automatical(std::shared_ptr<const CudaExecutor>) and
\* automatical(std::shared_ptr<const HipExecutor>)
automatical_on(exec) ==
    IF is_hip(exec)
    THEN automatical(get_num_warps(exec), get_warp_size(exec), FALSE)
    ELSE automatical(get_num_warps(exec), get_warp_size(exec), TRUE)

---------------------------------------------------------------------------
(* The Csr store *)

\* most rows of a matrix held in a store
MaxStoreRows == 2

StoreIds == {"mtx", "result"}

StrategyIds == {1, 2}

\* an Array of values or column indices: its length and what fills it
ArrayOf(n, tag) == [n |-> n, tag |-> tag]

\* no Csr object
NoStore ==
    [state |-> "none", exec |-> "reference", rows |-> 0,
     values |-> ArrayOf(0, "none"), col_idxs |-> ArrayOf(0, "none"),
     row_ptrs |-> <<>>, srow |-> <<>>, strategy |-> 0]

\* strategies a caller hands to a store
StoreStrategies ==
    {stateless("sparselib"), load_balance(1, 2, TRUE), load_balance(1, 0, TRUE),
     load_balance(-1, 2, TRUE), automatical(1, 2, TRUE),
     automatical(1, 0, TRUE)}

StoreRowLengths == {2, 65}

\* the row pointers of the matrices of r rows a store is given
StoreRowPtrs(r) == {RowPtrsOf(lens) : lens \in SeqsOfLen(StoreRowLengths, r)}

\* the strategy ids some store points to
Referenced(ss) == {ss[i].strategy : i \in {j \in StoreIds : ss[j].state = "live"}}

\* std::make_shared for the strategy store id is about to point to: an
\* object distinct from every one that is still alive once the store has
\* let go of its old strategy
fresh_id(ss, id) ==
    CHOOSE i \in StrategyIds :
        /\ i \notin Referenced([ss EXCEPT ![id] = NoStore])
        /\ \A j \in StrategyIds \ Referenced([ss EXCEPT ![id] = NoStore]) :
               i <= j

\* the last shared_ptr to a strategy gone, the strategy is destroyed
release(h, ss) ==
    [i \in StrategyIds |-> IF i \in Referenced(ss) THEN h[i] ELSE Free]

\* Array::resize_and_reset(n): nothing when the length is n already, a new
\* uninitialised allocation otherwise (garbage stands for what it holds)
resize_and_reset(arr, n, garbage) ==
    IF Len(arr) = n THEN arr ELSE [i \in 1..n |-> garbage]

\* GKO_ENSURE_IN_BOUNDS(index, bound) on size_type operands: throws
\* OutOfBoundsError unless index < bound; a negative index stands for the
\* wrapped-around size_type
ensure_in_bounds(index, bound) == index >= 0 /\ index < bound

\* make_srow without the resize_and_reset: process() on srow as it is
make_srow_without_resize(st, s, platform_hcc, ub) ==
    process(s, st.row_ptrs, st.srow, ub)

\* Csr::make_srow on store st with strategy s: the srow and the strategy
\* name it leaves, and how it ended ("alloc": resize_and_reset threw on a
\* size that is negative as int64, huge as size_type)
make_srow(st, s, platform_hcc, ub) ==
    LET size == clac_size(s, st.values.n, platform_hcc)
    IN  IF size < 0
        THEN Outcome("alloc", FALSE, FALSE, st.srow, s.name)
        ELSE process(s, st.row_ptrs,
                     resize_and_reset(st.srow, size, ub.val), ub)

\* how a store operation that ran make_srow ended
fault_of(r) == r.status

Running == fault # "trap"

\* the strategy argument of an operation: a new object, or the object a
\* live store points to already (its own, as in set_strategy(get_strategy()),
\* or another store's)
StrategyArgs(id) ==
    {[sid |-> fresh_id(stores, id), s |-> s] : s \in StoreStrategies}
    \cup {[sid |-> stores[o].strategy, s |-> heap[stores[o].strategy]] :
              o \in {j \in StoreIds : stores[j].state = "live"}}

Init ==
    /\ hcc \in BOOLEAN
    /\ stores = [i \in StoreIds |-> NoStore]
    /\ heap = [i \in StrategyIds |-> Free]
    /\ fault = "ok"
    /\ last = LastOp("none", "mtx", NoOutcome)
    /\ call = NoCall
    /\ ret = NoRet
    /\ NoZipIterator

\* Csr::create(exec, size, num_nonzeros, strategy): the size constructor.
\* The arrays are allocated and not initialised.
Create(id, exec, rows, nnz, arg, ub) ==
    /\ Running
    /\ stores[id].state = "none"
    /\ LET size == clac_size(arg.s, nnz, hcc)
           st == [state |-> "live", exec |-> exec, rows |-> rows,
                  values |-> ArrayOf(nnz, "uninitialised"),
                  col_idxs |-> ArrayOf(nnz, "uninitialised"),
                  row_ptrs |-> [i \in 1..(rows + (IF rows > 0 THEN 1 ELSE 0))
                                    |-> ub.val],
                  srow |-> [i \in 1..size |-> ub.val],
                  strategy |-> arg.sid]
           ss == [stores EXCEPT ![id] = st]
       IN  IF size < 0
           THEN /\ fault' = "alloc"
                /\ UNCHANGED <<stores, heap>>
           ELSE /\ fault' = "ok"
                /\ stores' = ss
                /\ heap' = release([heap EXCEPT ![arg.sid] = arg.s], ss)
    /\ last' = LastOp("create", id, NoOutcome)
    /\ UNCHANGED <<hcc, call, ret, vec1, vec2, zip, ndebug>>

\* what make_srow leaves of stores and heap when it ended as r on store
\* id, whose strategy_ is sid (object s): srow is replaced when process()
\* returned, and the strategy carries the name process() gave it
finish_make_srow(ss, h, id, sid, s, r) ==
    LET st == [ss[id] EXCEPT !.strategy = sid,
                             !.srow = IF r.status = "ok" THEN r.srow ELSE @]
        ss2 == [ss EXCEPT ![id] = st]
    IN  [stores |-> ss2,
         heap |-> release([h EXCEPT ![sid] = [s EXCEPT !.name = r.name]], ss2),
         r |-> r]

\* strategy_ = sid; make_srow(): what they leave of stores and heap
after_make_srow(ss, h, id, sid, s, ub) ==
    CHOOSE a \in {finish_make_srow(ss, h, id, sid, s, r) :
                      r \in {make_srow([ss[id] EXCEPT !.strategy = sid], s,
                                       hcc, ub)}} : TRUE

\* the constructor from arrays without
\* GKO_ENSURE_IN_BOUNDS(get_size()[0], row_ptrs_.get_num_elems())
CreateFromArrays_unchecked_rows(id, exec, rows, values_n, col_idxs_n, row_ptrs, arg, ub) ==
    /\ Running
    /\ stores[id].state = "none"
    /\ LET st == [state |-> "live", exec |-> exec, rows |-> rows,
                  values |-> ArrayOf(values_n, "given"),
                  col_idxs |-> ArrayOf(col_idxs_n, "given"),
                  row_ptrs |-> row_ptrs, srow |-> <<>>, strategy |-> arg.sid]
           given == Arrays(rows, values_n, col_idxs_n, Len(row_ptrs))
       IN  IF ~ensure_in_bounds(values_n - 1, col_idxs_n)
           THEN /\ fault' = "OutOfBoundsError"
                /\ last' = LastCreateFromArrays(id, NoOutcome, given)
                /\ UNCHANGED <<stores, heap>>
           ELSE \E a \in {after_make_srow([stores EXCEPT ![id] = st], heap,
                                          id, arg.sid, arg.s, ub)} :
                    /\ fault' = fault_of(a.r)
                    /\ last' = LastCreateFromArrays(id, a.r, given)
                    /\ IF a.r.status = "ok"
                       THEN stores' = a.stores /\ heap' = a.heap
                       ELSE UNCHANGED <<stores, heap>>
    /\ UNCHANGED <<hcc, call, ret, vec1, vec2, zip, ndebug>>

\* Csr::create(exec, size, values, col_idxs, row_ptrs, strategy): the
\* constructor from arrays
CreateFromArrays(id, exec, rows, values_n, col_idxs_n, row_ptrs, arg, ub) ==
    /\ Running
    /\ stores[id].state = "none"
    /\ LET st == [state |-> "live", exec |-> exec, rows |-> rows,
                  values |-> ArrayOf(values_n, "given"),
                  col_idxs |-> ArrayOf(col_idxs_n, "given"),
                  row_ptrs |-> row_ptrs, srow |-> <<>>, strategy |-> arg.sid]
           given == Arrays(rows, values_n, col_idxs_n, Len(row_ptrs))
       IN  IF ~ensure_in_bounds(values_n - 1, col_idxs_n)
              \/ ~ensure_in_bounds(rows, Len(row_ptrs))
           THEN /\ fault' = "OutOfBoundsError"
                /\ last' = LastCreateFromArrays(id, NoOutcome, given)
                /\ UNCHANGED <<stores, heap>>
           ELSE \E a \in {after_make_srow([stores EXCEPT ![id] = st], heap,
                                          id, arg.sid, arg.s, ub)} :
                    /\ fault' = fault_of(a.r)
                    /\ last' = LastCreateFromArrays(id, a.r, given)
                    /\ IF a.r.status = "ok"
                       THEN stores' = a.stores /\ heap' = a.heap
                       ELSE UNCHANGED <<stores, heap>>
    /\ UNCHANGED <<hcc, call, ret, vec1, vec2, zip, ndebug>>

\* the caller stores new row pointers through get_row_ptrs()
WriteRowPtrs(id, row_ptrs) ==
    /\ Running
    /\ stores[id].state = "live"
    /\ Len(stores[id].row_ptrs) > 0
    /\ Len(row_ptrs) = Len(stores[id].row_ptrs)
    /\ row_ptrs # stores[id].row_ptrs
    /\ stores' = [stores EXCEPT ![id].row_ptrs = row_ptrs]
    /\ fault' = "ok"
    /\ last' = LastOp("write_row_ptrs", id, NoOutcome)
    /\ UNCHANGED <<hcc, heap, call, ret, vec1, vec2, zip, ndebug>>

\* Csr::set_strategy(strategy)
SetStrategy(id, arg, ub) ==
    /\ Running
    /\ stores[id].state = "live"
    /\ \E a \in {after_make_srow(stores, heap, id, arg.sid, arg.s, ub)} :
           /\ stores' = a.stores
           /\ heap' = a.heap
           /\ fault' = fault_of(a.r)
           /\ last' = LastOpWith("set_strategy", id, a.r, arg)
    /\ UNCHANGED <<hcc, call, ret, vec1, vec2, zip, ndebug>>

\* EnableLinOp<Csr>::convert_to(result), *result = *this: the size, the
\* arrays (copied to the result's executor) and the strategy pointer
copy_assign(from, to) ==
    [to EXCEPT !.rows = from.rows, !.values = from.values,
               !.col_idxs = from.col_idxs, !.row_ptrs = from.row_ptrs,
               !.srow = from.srow, !.strategy = from.strategy]

\* rebuilt_strategy without the HipExecutor branches
rebuilt_strategy_cuda_only(strategy, same_executor, executor) ==
    IF same_executor THEN Free
    ELSE IF strategy.kind = "load_balance" /\ is_cuda(executor)
    THEN load_balance_on(executor)
    ELSE IF strategy.kind = "automatical" /\ is_cuda(executor)
    THEN automatical_on(executor)
    ELSE Free

\* rebuilt_strategy telling the strategies apart by get_name() instead of
\* by dynamic_pointer_cast
rebuilt_strategy_by_name(strategy, same_executor, executor) ==
    IF same_executor \/ ~(is_hip(executor) \/ is_cuda(executor)) THEN Free
    ELSE IF strategy.name = "load_balance" THEN load_balance_on(executor)
    ELSE IF strategy.name = "automatical" THEN automatical_on(executor)
    ELSE Free

\* the strategy convert_to and move_to set on the result after the copy;
\* Free when they set none
rebuilt_strategy(strategy, same_executor, executor) ==
    IF same_executor THEN Free
    ELSE IF strategy.kind = "load_balance"
    THEN IF is_hip(executor) THEN load_balance_on(executor)
         ELSE IF is_cuda(executor) THEN load_balance_on(executor)
         ELSE Free
    ELSE IF strategy.kind = "automatical"
    THEN IF is_hip(executor) THEN automatical_on(executor)
         ELSE IF is_cuda(executor) THEN automatical_on(executor)
         ELSE Free
    ELSE Free

\* the body shared by Csr::convert_to(Csr*) and Csr::move_to(Csr*): what
\* they leave of the stores and the heap, the source kept as it is
convert(ss, h, from, to, ub) ==
    LET executor == ss[to].exec
        same_executor == ss[from].exec = executor
        strategy == h[ss[from].strategy]
        copied == [ss EXCEPT ![to] = copy_assign(ss[from], ss[to])]
        rebuilt == rebuilt_strategy(strategy, same_executor, executor)
    IN  IF rebuilt = Free
        THEN [stores |-> copied, heap |-> release(h, copied), r |-> NoOutcome]
        ELSE after_make_srow(copied, h, to, fresh_id(copied, to), rebuilt, ub)

\* mtx->convert_to(result)
ConvertTo(from, to, ub) ==
    /\ Running
    /\ from # to
    /\ stores[from].state = "live" /\ stores[to].state = "live"
    /\ \E a \in {convert(stores, heap, from, to, ub)} :
           /\ stores' = a.stores
           /\ heap' = a.heap
           /\ fault' = fault_of(a.r)
           /\ last' = LastOp("convert_to", to, a.r)
    /\ UNCHANGED <<hcc, call, ret, vec1, vec2, zip, ndebug>>

\* mtx->move_to(result): as convert_to, and the source is left moved-from
MoveTo(from, to, ub) ==
    /\ Running
    /\ from # to
    /\ stores[from].state = "live" /\ stores[to].state = "live"
    /\ \E a \in {convert(stores, heap, from, to, ub)} :
           /\ stores' = [a.stores EXCEPT ![from] = NoStore]
           /\ heap' = release(a.heap, [a.stores EXCEPT ![from] = NoStore])
           /\ fault' = fault_of(a.r)
           /\ last' = LastOp("move_to", to, a.r)
    /\ UNCHANGED <<hcc, call, ret, vec1, vec2, zip, ndebug>>

\* numbers of nonzeros a store is created with
StoreNnz == {0, 67}

\* executors the matrix is created on
SourceExecutors == {"omp", "cuda"}

\* the row pointers handed to the constructor from arrays for a matrix of
\* `rows` rows: of the right length, or one element short
GivenRowPtrs ==
    [rows \in 0..MaxStoreRows |->
        StoreRowPtrs(rows) \cup (IF rows > 0 THEN StoreRowPtrs(rows - 1) ELSE {})]

\* the row pointers a caller writes into an array of n elements
WrittenRowPtrs ==
    [n \in 1..(MaxStoreRows + 1) |-> StoreRowPtrs(n - 1)]

\* a caller creates the matrix with the size constructor
CreateMtx ==
    /\ stores["mtx"].state = "none"
    /\ \E exec \in SourceExecutors, rows \in 0..MaxStoreRows,
          nnz \in StoreNnz, ub \in UBOutcomes, arg \in StrategyArgs("mtx") :
           Create("mtx", exec, rows, nnz, arg, ub)

\* a caller creates the matrix from arrays: the column index array is as
\* long as the value array, or one element off; the row pointers are of the
\* right length or one short
CreateMtxFromArrays ==
    /\ stores["mtx"].state = "none"
    /\ \E exec \in SourceExecutors, rows \in 0..MaxStoreRows,
          d \in {-1, 0, 1}, ub \in UBOutcomes, arg \in StrategyArgs("mtx") :
           \E row_ptrs \in GivenRowPtrs[rows] :
               /\ row_ptrs[Len(row_ptrs)] + d >= 0
               /\ CreateFromArrays("mtx", exec, rows, row_ptrs[Len(row_ptrs)],
                                   row_ptrs[Len(row_ptrs)] + d, row_ptrs, arg,
                                   ub)

\* a caller overwrites the row pointers of the matrix
WriteMtxRowPtrs ==
    /\ stores["mtx"].state = "live"
    /\ Len(stores["mtx"].row_ptrs) > 0
    /\ \E row_ptrs \in WrittenRowPtrs[Len(stores["mtx"].row_ptrs)] :
           WriteRowPtrs("mtx", row_ptrs)

\* a caller sets a strategy on the matrix
SetMtxStrategy ==
    /\ stores["mtx"].state = "live"
    /\ \E ub \in UBOutcomes, arg \in StrategyArgs("mtx") :
           SetStrategy("mtx", arg, ub)

\* the life of one store: construction, writes through get_row_ptrs() and
\* set_strategy
Next ==
    \/ CreateMtx
    \/ CreateMtxFromArrays
    \/ WriteMtxRowPtrs
    \/ SetMtxStrategy

Spec == Init /\ [][Next]_vars

---------------------------------------------------------------------------
(* Moving a matrix to another executor *)

\* a caller creates the matrix from consistent arrays of MaxStoreRows rows,
\* before the result it will be converted into
CreateSource ==
    /\ stores["mtx"].state = "none"
    /\ stores["result"].state = "none"
    /\ \E exec \in SourceExecutors, ub \in UBOutcomes,
          arg \in StrategyArgs("mtx") :
           \E row_ptrs \in GivenRowPtrs[MaxStoreRows] :
               /\ Len(row_ptrs) = MaxStoreRows + 1
               /\ CreateFromArrays("mtx", exec, MaxStoreRows,
                                   row_ptrs[Len(row_ptrs)],
                                   row_ptrs[Len(row_ptrs)], row_ptrs, arg, ub)

\* Csr::create(exec): the empty matrix a conversion is given as its result
CreateResult ==
    /\ stores["result"].state = "none"
    /\ \E exec \in Executors, ub \in UBOutcomes :
           Create("result", exec, 0, 0,
                  [sid |-> fresh_id(stores, "result"),
                   s |-> stateless("sparselib")], ub)

\* mtx->convert_to(result)
ConvertMtx ==
    /\ stores["mtx"].state = "live" /\ stores["result"].state = "live"
    /\ \E ub \in UBOutcomes : ConvertTo("mtx", "result", ub)

\* mtx->move_to(result)
MoveMtx ==
    /\ stores["mtx"].state = "live" /\ stores["result"].state = "live"
    /\ \E ub \in UBOutcomes : MoveTo("mtx", "result", ub)

NextMigrate ==
    \/ CreateSource
    \/ CreateResult
    \/ SetMtxStrategy
    \/ ConvertMtx
    \/ MoveMtx

SpecMigrate == Init /\ [][NextMigrate]_vars

---------------------------------------------------------------------------
(* Two matrices and the strategy objects they may share *)

\* a caller creates matrix id from consistent arrays of one row, with a new
\* strategy or with the strategy object of the other matrix
CreateSharing(id) ==
    /\ stores[id].state = "none"
    /\ \E ub \in UBOutcomes, arg \in StrategyArgs(id),
          row_ptrs \in StoreRowPtrs(1) :
           CreateFromArrays(id, "omp", 1, row_ptrs[Len(row_ptrs)],
                            row_ptrs[Len(row_ptrs)], row_ptrs, arg, ub)

\* a caller sets a strategy on matrix id: a new one, its own or the other
\* matrix's
SetSharing(id) ==
    /\ stores[id].state = "live"
    /\ \E ub \in UBOutcomes, arg \in StrategyArgs(id) :
           SetStrategy(id, arg, ub)

NextShare ==
    \/ CreateSharing("mtx")
    \/ CreateSharing("result")
    \/ SetSharing("mtx")
    \/ SetSharing("result")

SpecShare == Init /\ [][NextShare]_vars

---------------------------------------------------------------------------
(* Sorting and swapping through a zip iterator *)

\* longest arrays under a zip iterator
MaxZip == 3

\* the elements of the first array
ZipKeys == {1, 2, 3}

\* the two arrays a zip iterator is made over: any keys, with values that
\* tell the positions apart or values that are equal on equal keys
ZipArrays ==
    UNION {{[vec1 |-> a1, vec2 |-> [i \in 1..Len(a1) |-> 10 * i]],
            [vec1 |-> a1, vec2 |-> [i \in 1..Len(a1) |-> 10 * a1[i]]]} :
               a1 \in UNION {[1..n -> ZipKeys] : n \in 0..MaxZip}}

\* the variables of the Csr model
csrvars == <<hcc, stores, heap, fault, last, call, ret>>

\* make_zip_iterator(vec1.data(), vec2.data())
InitZip ==
    /\ hcc = FALSE
    /\ stores = NoStores
    /\ heap = <<>>
    /\ fault = "ok"
    /\ last = LastOp("none", "mtx", NoOutcome)
    /\ call = NoCall
    /\ ret = NoRet
    /\ zip = NoZip
    /\ ndebug \in BOOLEAN
    /\ \E a \in ZipArrays : vec1 = a.vec1 /\ vec2 = a.vec2

\* a sort that reads *it before it looks at the range
StartSort_reading_first ==
    /\ zip.op = "none"
    /\ zip' = [NoZip EXCEPT !.op = "sort", !.pc = "outer", !.i = 1,
                            !.from1 = vec1, !.from2 = vec2, !.deref = TRUE]
    /\ UNCHANGED <<vec1, vec2>>
    /\ UNCHANGED <<csrvars, ndebug>>

\* std::sort(it, it + vec1.size()) is entered.  The sort is the insertion
\* sort std::sort runs on short ranges: for each i from 1, the tuple at i is
\* taken out, the larger elements before it move one position up, and the
\* tuple is put where they were.
StartSort ==
    /\ zip.op = "none"
    /\ zip' = [NoZip EXCEPT !.op = "sort", !.pc = "outer", !.i = 1,
                            !.from1 = vec1, !.from2 = vec2]
    /\ UNCHANGED <<vec1, vec2>>
    /\ UNCHANGED <<csrvars, ndebug>>

\* value_type temp = *(it + i)
SortTake ==
    /\ zip.op = "sort" /\ zip.pc = "outer"
    /\ zip.i < Len(vec1)
    /\ zip' = [zip EXCEPT !.pc = "inner", !.j = zip.i,
                          !.temp = snapshot(vec1, vec2, zip.i),
                          !.deref = TRUE]
    /\ UNCHANGED <<vec1, vec2>>
    /\ UNCHANGED <<csrvars, ndebug>>

\* while (temp < *(it + j - 1)) { *(it + j) = *(it + j - 1); --j; }
SortShift ==
    /\ zip.op = "sort" /\ zip.pc = "inner"
    /\ zip.j > 0
    /\ less(zip.temp, snapshot(vec1, vec2, zip.j - 1))
    /\ \E a \in {assign(vec1, vec2, zip.j,
                         snapshot(vec1, vec2, zip.j - 1))} :
           vec1' = a.vec1 /\ vec2' = a.vec2
    /\ zip' = [zip EXCEPT !.j = zip.j - 1, !.deref = TRUE]
    /\ UNCHANGED <<csrvars, ndebug>>

\* *(it + j) = temp; ++i
SortPlace ==
    /\ zip.op = "sort" /\ zip.pc = "inner"
    /\ ~(zip.j > 0 /\ less(zip.temp, snapshot(vec1, vec2, zip.j - 1)))
    /\ \E a \in {assign(vec1, vec2, zip.j, zip.temp)} :
           vec1' = a.vec1 /\ vec2' = a.vec2
    /\ zip' = [zip EXCEPT !.pc = "outer", !.i = zip.i + 1, !.temp = <<>>,
                          !.deref = TRUE]
    /\ UNCHANGED <<csrvars, ndebug>>

\* std::sort returns
SortReturn ==
    /\ zip.op = "sort" /\ zip.pc = "outer"
    /\ zip.i >= Len(vec1)
    /\ zip' = [zip EXCEPT !.pc = "done"]
    /\ UNCHANGED <<vec1, vec2>>
    /\ UNCHANGED <<csrvars, ndebug>>

\* swap(*(it + p), *(it + q))
SwapReferences ==
    /\ zip.op = "none"
    /\ \E p \in 0..(Len(vec1) - 1), q \in 0..(Len(vec1) - 1) :
           /\ \E a \in {swap(vec1, vec2, p, q)} :
                  vec1' = a.vec1 /\ vec2' = a.vec2
           /\ zip' = [NoZip EXCEPT !.op = "swap", !.pc = "done", !.p = p,
                                   !.q = q, !.from1 = vec1, !.from2 = vec2,
                                   !.deref = TRUE]
    /\ UNCHANGED <<csrvars, ndebug>>

\* auto temp = static_cast<value_type>(*(it + p)): the first statement of a
\* swap written by hand
HandTake ==
    /\ zip.op = "none"
    /\ \E p \in 0..(Len(vec1) - 1), q \in 0..(Len(vec1) - 1) :
           zip' = [NoZip EXCEPT !.op = "hand_swap", !.pc = "taken", !.p = p,
                                !.q = q, !.from1 = vec1, !.from2 = vec2,
                                !.temp = snapshot(vec1, vec2, p),
                                !.deref = TRUE]
    /\ UNCHANGED <<vec1, vec2>>
    /\ UNCHANGED <<csrvars, ndebug>>

\* *(it + p) = *(it + q): the reference at q is read, and what it holds
\* is written at p
HandAssign ==
    /\ zip.op = "hand_swap" /\ zip.pc = "taken"
    /\ \E a \in {assign(vec1, vec2, zip.p, snapshot(vec1, vec2, zip.q))} :
           vec1' = a.vec1 /\ vec2' = a.vec2
    /\ zip' = [zip EXCEPT !.pc = "assigned"]
    /\ UNCHANGED <<csrvars, ndebug>>

\* *(it + q) = temp
HandPlace ==
    /\ zip.op = "hand_swap" /\ zip.pc = "assigned"
    /\ \E a \in {assign(vec1, vec2, zip.q, zip.temp)} :
           vec1' = a.vec1 /\ vec2' = a.vec2
    /\ zip' = [zip EXCEPT !.pc = "done"]
    /\ UNCHANGED <<csrvars, ndebug>>

\* the four forms of operator< between the positions p and q:
\* *(it + p) < *(it + q), reference < tuple, tuple < reference and
\* tuple < tuple, the tuples being copies read from the references
CompareReferences ==
    /\ zip.op = "none"
    /\ \E p \in 0..(Len(vec1) - 1), q \in 0..(Len(vec1) - 1) :
           \E p_val \in {snapshot(vec1, vec2, p)},
              q_val \in {snapshot(vec1, vec2, q)} :
               zip' = [NoZip EXCEPT
                          !.op = "less", !.pc = "done", !.p = p, !.q = q,
                          !.from1 = vec1, !.from2 = vec2, !.deref = TRUE,
                          !.truth = <<less(snapshot(vec1, vec2, p),
                                           snapshot(vec1, vec2, q)),
                                      less(snapshot(vec1, vec2, p), q_val),
                                      less(p_val, snapshot(vec1, vec2, q)),
                                      less(p_val, q_val)>>]
    /\ UNCHANGED <<vec1, vec2>>
    /\ UNCHANGED <<csrvars, ndebug>>

NextZip ==
    \/ StartSort
    \/ SortTake
    \/ SortShift
    \/ SortPlace
    \/ SortReturn
    \/ SwapReferences
    \/ HandTake
    \/ HandAssign
    \/ HandPlace
    \/ CompareReferences

SpecZip == InitZip /\ [][NextZip]_vars

---------------------------------------------------------------------------
(* Arithmetic and comparison of zip iterators *)

\* the n of it + n, n + it and it - n
CursorSteps == {-2, -1, 1, 2}

\* the forms of moving a cursor by n
AdvanceForms == {"it + n", "n + it", "it - n"}

\* the operations that leave the cursors usable
CursorOps ==
    {"none", "make", "copy", "++it", "it++", "--it", "it--", "-", "compare"}
        \cup AdvanceForms

\* vec1 and vec2 of the tests, and test_iter = begin over them
InitCursor ==
    /\ hcc = FALSE
    /\ stores = NoStores
    /\ heap = <<>>
    /\ fault = "ok"
    /\ last = LastOp("none", "mtx", NoOutcome)
    /\ call = NoCall
    /\ ret = NoRet
    /\ zip = NoZip
    /\ ndebug \in BOOLEAN
    /\ vec1 = [i \in 1..MaxZip |-> MaxZip + 1 - i]
    /\ vec2 = [i \in 1..MaxZip |-> 10 * i]

\* the cursor points into the arrays or one past their end
InRange(it) == it.it1 \in 0..Len(vec1) /\ it.it2 \in 0..Len(vec2)

\* the process runs and no sort or swap is under way
CursorsUsable == fault = "ok" /\ zip.op \in CursorOps

\* the two cursors, and nothing left of the operation before
Cursors == [NoZip EXCEPT !.it = zip.it, !.other = zip.other]

\* what the cursor operations leave alone
cursor_unchanged ==
    UNCHANGED <<hcc, stores, heap, last, call, ret, vec1, vec2, ndebug>>

\* other = make_zip_iterator(vec1.data() + d1, vec2.data() + d2)
MakeIterator ==
    /\ CursorsUsable
    /\ \E d1 \in 0..1, d2 \in 0..1 :
           zip' = [Cursors EXCEPT !.op = "make",
                              !.other = make_zip_iterator(d1, d2)]
    /\ UNCHANGED fault
    /\ cursor_unchanged

\* auto other = it, or it = other
CopyIterator ==
    /\ CursorsUsable
    /\ \/ zip' = [Cursors EXCEPT !.op = "copy", !.other = zip.it]
       \/ zip' = [Cursors EXCEPT !.op = "copy", !.it = zip.other]
    /\ UNCHANGED fault
    /\ cursor_unchanged

\* it = it + n, it = n + it, it = it - n
Advance ==
    /\ CursorsUsable
    /\ \E n \in CursorSteps, form \in AdvanceForms :
           \E to \in {CASE form = "it + n" -> plus(zip.it, n)
                         [] form = "n + it" -> plus_rev(n, zip.it)
                         [] form = "it - n" -> minus(zip.it, n)} :
               /\ InRange(to)
               /\ zip' = [Cursors EXCEPT !.op = form, !.n = n, !.was = zip.it,
                                     !.it = to, !.returned = to]
    /\ UNCHANGED fault
    /\ cursor_unchanged

\* the cursors after ++it or it++ (--it or it-- when by = -1).  zip.was
\* is the cursor before the first of the steps of this form made in a row,
\* zip.i their number.
stepped(form, by, post) ==
    [Cursors EXCEPT !.op = form,
                    !.was = IF zip.op = form THEN zip.was ELSE zip.it,
                    !.i = IF zip.op = form THEN zip.i + 1 ELSE 1,
                    !.it = plus(zip.it, by),
                    !.returned = IF post THEN zip.it ELSE plus(zip.it, by)]

\* ++it, it++
Increment ==
    /\ CursorsUsable
    /\ \E to \in {stepped("++it", 1, FALSE), stepped("it++", 1, TRUE)} :
           InRange(to.it) /\ zip' = to
    /\ UNCHANGED fault
    /\ cursor_unchanged

\* --it, it--
Decrement ==
    /\ CursorsUsable
    /\ \E to \in {stepped("--it", -1, FALSE), stepped("it--", -1, TRUE)} :
           InRange(to.it) /\ zip' = to
    /\ UNCHANGED fault
    /\ cursor_unchanged

\* other - it.  Without the assertion, cursors whose base cursors disagree
\* give the distance of whichever base cursors the build reads.
Subtract ==
    /\ CursorsUsable
    /\ IF passes_check(zip.other, zip.it, ndebug)
       THEN /\ \E k \in {1, 2} :
                  /\ k = 2 => ~consistent(zip.other, zip.it)
                  /\ zip' = [Cursors EXCEPT
                        !.op = "-",
                        !.diff = IF k = 1 THEN difference(zip.other, zip.it)
                                 ELSE base_difference(zip.other, zip.it, k)]
            /\ UNCHANGED fault
       ELSE /\ zip' = [Cursors EXCEPT !.op = "-"]
            /\ fault' = "abort"
    /\ cursor_unchanged

\* it rel other, for each of the six comparison operators
Compare ==
    /\ CursorsUsable
    /\ \E rel \in Relations :
           IF passes_check(zip.it, zip.other, ndebug)
           THEN /\ \E k \in {1, 2} :
                      /\ k = 2 => ~consistent(zip.it, zip.other)
                      /\ zip' = [Cursors EXCEPT
                            !.op = "compare", !.rel = rel,
                            !.truth =
                              IF k = 1
                              THEN <<compare(rel, zip.it, zip.other)>>
                              ELSE <<relation(rel, base_difference(
                                         zip.it, zip.other, k))>>]
                /\ UNCHANGED fault
           ELSE /\ zip' = [Cursors EXCEPT !.op = "compare", !.rel = rel]
                /\ fault' = "abort"
    /\ cursor_unchanged

NextCursor ==
    \/ MakeIterator
    \/ CopyIterator
    \/ Advance
    \/ Increment
    \/ Decrement
    \/ Subtract
    \/ Compare

SpecCursor == InitCursor /\ [][NextCursor]_vars

---------------------------------------------------------------------------
(* process() on arrays that live on an executor *)

\* an Array<index_type>: its executor and its elements
ArrayOn(exec, data) == [exec |-> exec, data |-> data]

\* Array::operator=(const Array &): the elements are copied to the executor
\* of the array assigned to
array_assign(to, from) == ArrayOn(to.exec, from.data)

\* is_srow_on_host, is_mtx_on_host: the array lives on its master executor
on_host(arr) == get_master(arr.exec) = arr.exec

\* the array the host pointer of process() points into: the array itself,
\* or the copy of it made on the master executor
staged(arr) ==
    IF on_host(arr) THEN arr
    ELSE array_assign(ArrayOn(get_master(arr.exec), <<>>), arr)

\* load_balance::process on arrays of any executor: the table is built in
\* the host array and, if mtx_srow is not that array, assigned back to it
load_balance_process_on(s, mtx_row_ptrs, mtx_srow, ub) ==
    LET r == load_balance_process(s, staged(mtx_row_ptrs).data,
                                  staged(mtx_srow).data, ub)
    IN  [r |-> r,
         row_ptrs |-> mtx_row_ptrs,
         srow |-> IF Len(mtx_srow.data) = 0 THEN mtx_srow
                  ELSE IF on_host(mtx_srow)
                  THEN ArrayOn(mtx_srow.exec, r.srow)
                  ELSE IF r.status = "ok"
                  THEN array_assign(
                           mtx_srow,
                           ArrayOn(get_master(mtx_srow.exec), r.srow))
                  ELSE mtx_srow]

\* automatical::process on arrays of any executor: the row pointers are
\* read in the host array, which is also what the delegate is given
automatical_process_on(s, mtx_row_ptrs, mtx_srow, ub) ==
    LET row_ptrs_host == staged(mtx_row_ptrs)
        row_ptrs == row_ptrs_host.data
        oob == Len(row_ptrs) = 0
        total == IF oob THEN ub.val ELSE row_ptrs[Len(row_ptrs)]
        actual == automatical_actual_strategy(
                      s, total, max_row_length(row_ptrs, 1, 0))
    IN  IF oob /\ ub.trap
        THEN [r |-> Outcome("trap", FALSE, TRUE, mtx_srow.data, s.name),
              row_ptrs |-> mtx_row_ptrs, srow |-> mtx_srow]
        ELSE IF actual.kind = "load_balance"
        THEN LET a == load_balance_process_on(actual, row_ptrs_host,
                                              mtx_srow, ub)
             IN  [r |-> Outcome(a.r.status, a.r.divzero, oob \/ a.r.oob,
                                a.r.srow,
                                IF a.r.status = "ok" THEN actual.name
                                ELSE s.name),
                  row_ptrs |-> mtx_row_ptrs, srow |-> a.srow]
        ELSE [r |-> Outcome("ok", FALSE, oob, mtx_srow.data, actual.name),
              row_ptrs |-> mtx_row_ptrs, srow |-> mtx_srow]

\* strategy_type::process on arrays of any executor
process_on(s, mtx_row_ptrs, mtx_srow, ub) ==
    CASE s.kind = "load_balance" ->
             load_balance_process_on(s, mtx_row_ptrs, mtx_srow, ub)
      [] s.kind = "automatical" ->
             automatical_process_on(s, mtx_row_ptrs, mtx_srow, ub)
      [] OTHER ->
             [r |-> Outcome("ok", FALSE, FALSE, mtx_srow.data, s.name),
              row_ptrs |-> mtx_row_ptrs, srow |-> mtx_srow]

\* the strategies that build a table
StagedStrategies ==
    {load_balance(1, w, TRUE) : w \in WarpSizeSamples \ {-1}}
    \cup {automatical(1, w, TRUE) : w \in WarpSizeSamples \ {-1}}

\* row pointers: none, those at the thresholds of automatical::process, and
\* those of every matrix of up to MaxStoreRows rows
StagedRowPtrs ==
    {<<>>} \cup ThresholdRowPtrs
    \cup UNION {StoreRowPtrs(rows) : rows \in 0..MaxStoreRows}

\* process() is about to be called on arrays of a host or a device executor
InitStage ==
    /\ hcc \in BOOLEAN
    /\ \E s \in StagedStrategies, row_ptrs \in StagedRowPtrs,
          srow \in SrowSamples,
          mtx_exec \in SourceExecutors, srow_exec \in SourceExecutors :
           call = [op |-> "process_on", s |-> s, nnz |-> 0,
                   row_ptrs |-> ArrayOn(mtx_exec, row_ptrs),
                   srow |-> ArrayOn(srow_exec, srow)]
    /\ ret = NoRet
    /\ stores = NoStores
    /\ heap = <<>>
    /\ fault = "ok"
    /\ last = LastOp("none", "mtx", NoOutcome)
    /\ NoZipIterator

\* s->process(row_ptrs, &srow) on the arrays of the call, and the same
\* call on arrays of the same elements that both live on the host
CallProcessOn ==
    /\ call.op = "process_on"
    /\ ret = NoRet
    /\ \E ub \in UBOutcomes, ub_host \in UBOutcomes :
           \E a \in {process_on(call.s, call.row_ptrs, call.srow, ub)},
              h \in {process_on(
                         call.s,
                         ArrayOn(get_master(call.row_ptrs.exec),
                                 call.row_ptrs.data),
                         ArrayOn(get_master(call.srow.exec), call.srow.data),
                         ub_host)} :
               ret' = [status |-> a.r.status, divzero |-> a.r.divzero,
                       oob |-> a.r.oob, srow |-> a.srow, name |-> a.r.name,
                       size |-> 0, row_ptrs |-> a.row_ptrs,
                       host |-> [status |-> h.r.status,
                                 divzero |-> h.r.divzero, oob |-> h.r.oob,
                                 srow |-> h.srow]]
    /\ UNCHANGED <<hcc, stores, heap, fault, last, call, vec1, vec2, zip,
                   ndebug>>

NextStage == CallProcessOn

SpecStage == InitStage /\ [][NextStage]_vars

---------------------------------------------------------------------------
(* Claims about the store, checked under Spec *)

Live(id) == stores[id].state = "live"

StrategyOf(id) == heap[stores[id].strategy]

\* srow of store st is what make_srow with strategy s can leave there for
\* the row pointers st holds now
IsBuilt(st, s) ==
    /\ Len(st.srow) = clac_size(s, st.values.n, hcc)
    /\ \E ub \in UBOutcomes :
           LET r == process(s, st.row_ptrs, st.srow, ub)
           IN  r.status = "ok" /\ r.srow = st.srow

\* C1: whenever a caller can look at a store (here: one constructed from
\* arrays, after an operation that returned), srow has the length
\* strategy.size(nnz) and the contents strategy.build leaves for the current
\* row pointers: srow is never stale, also after writes through
\* get_row_ptrs().
C1_TableNeverStale ==
    (fault = "ok" /\ Live("mtx") /\ stores["mtx"].values.tag = "given")
    => IsBuilt(stores["mtx"], StrategyOf("mtx"))

\* the same strategy object up to the name process() may have given it
SameObject(a, b) ==
    /\ a.kind = b.kind /\ a.nwarps_ = b.nwarps_
    /\ a.warp_size_ = b.warp_size_ /\ a.cuda_strategy_ = b.cuda_strategy_

\* what C2 says of a set_strategy(arg) that returned, from store `old` to
\* store `new`
SetStrategyEffect(old, new, arg) ==
    LET size == clac_size(arg.s, old.values.n, hcc)
    IN  /\ new.strategy = arg.sid
        /\ SameObject(heap'[arg.sid], arg.s)
        /\ Len(new.srow) = size
        /\ \E ub \in UBOutcomes :
               LET r == process(arg.s, old.row_ptrs,
                                resize_and_reset(old.srow, size, ub.val), ub)
               IN  r.status = "ok" /\ r.srow = new.srow
        /\ new.values = old.values
        /\ new.col_idxs = old.col_idxs
        /\ new.row_ptrs = old.row_ptrs
        /\ new.rows = old.rows

\* C2: set_strategy(S), when it returns, has made S the store's strategy,
\* resized srow to S.size(number of stored values) and run S.build on it
\* with the store's row pointers; values, column indices and row pointers
\* are as before.
C2_SetStrategyRebuilds ==
    [][(last'.op = "set_strategy" /\ fault' = "ok")
       => SetStrategyEffect(stores["mtx"], stores'["mtx"], last'.arg)]_vars

\* C2's case: set_strategy(load_balance(1, 2)) has built a table that is
\* not constant from the row pointers 0, 2, 67
C2_Witness ==
    /\ last.op = "set_strategy" /\ fault = "ok" /\ Live("mtx")
    /\ StrategyOf("mtx") = load_balance(1, 2, TRUE)
    /\ stores["mtx"].row_ptrs = <<0, 2, 67>>
    /\ stores["mtx"].values.n = 67
    /\ stores["mtx"].srow = <<0, 1, 1, 1, 1, 1, 1, 1>>

\* the operations that end with make_srow on the store they leave
Rebuilt == last.op \in {"set_strategy", "create_from_arrays"} /\ fault = "ok"

\* C10: a load_balance or automatical with warp_size <= 0 sizes srow as 0
\* for every nnz, and a rebuild of a store with it (resize to that size,
\* then build) that returns leaves srow empty and has divided by zero
\* nowhere.
C10_NoWarpSizeNoTable ==
    (Live("mtx") /\ StrategyOf("mtx").kind \in {"load_balance", "automatical"}
         /\ StrategyOf("mtx").warp_size_ <= 0)
    => /\ \A nnz \in NnzSamples : clac_size(StrategyOf("mtx"), nnz, hcc) = 0
       /\ Rebuilt => (stores["mtx"].srow = <<>> /\ ~last.divzero)

\* C10's case: a store of 67 values in rows longer than 64 has been rebuilt
\* with an automatical whose warp_size is 0
C10_Witness ==
    /\ Rebuilt /\ last.op = "set_strategy" /\ Live("mtx")
    /\ StrategyOf("mtx").kind = "automatical"
    /\ StrategyOf("mtx").warp_size_ = 0
    /\ stores["mtx"].values.n = 67
    /\ stores["mtx"].row_ptrs = <<0, 2, 67>>
    /\ stores["mtx"].srow = <<>>

---------------------------------------------------------------------------
(* Claims about moving a store, checked under SpecMigrate *)

\* a step of convert_to or move_to from mtx to result that returned
Migrated ==
    /\ last'.op \in {"convert_to", "move_to"} /\ fault' = "ok"
    /\ \E ub \in UBOutcomes :
           ConvertTo("mtx", "result", ub) \/ MoveTo("mtx", "result", ub)

\* ... of a load_balance or automatical, to another executor
MigratedSizing ==
    /\ Migrated
    /\ StrategyOf("mtx").kind \in {"load_balance", "automatical"}
    /\ stores["mtx"].exec # stores["result"].exec

\* the result's strategy is a new object of the source's kind carrying what
\* the result's executor says of itself
RebuiltForTarget ==
    LET target == stores["result"].exec
        s == heap'[stores'["result"].strategy]
    IN  /\ stores'["result"].strategy # stores["mtx"].strategy
        /\ s.kind = StrategyOf("mtx").kind
        /\ target \in {"cuda", "hip"}
           => /\ s.nwarps_ = get_num_warps(target)
              /\ s.warp_size_ = get_warp_size(target)
              /\ s.cuda_strategy_ = (target = "cuda")

\* the result points to the very strategy object of the source
SharesSourceStrategy ==
    /\ stores'["result"].strategy = stores["mtx"].strategy
    /\ SameObject(heap'[stores'["result"].strategy], StrategyOf("mtx"))

\* C3 as stated: convert_to or move_to of a store with a load_balance or
\* automatical strategy to any other executor, host executors included,
\* leaves the result with a new strategy object of the same kind carrying
\* the target's parameters.
C3_RebuiltOnEveryTarget ==
    [][MigratedSizing => RebuiltForTarget]_vars

\* C3 amended: that holds when the target is a CUDA or HIP executor; when
\* the target is a host executor (reference, omp) no strategy is derived
\* and the result points to the source's strategy object, parameters
\* unchanged.
C3_RebuiltOnDeviceTargets ==
    [][MigratedSizing
       => IF stores["result"].exec \in {"cuda", "hip"}
          THEN RebuiltForTarget
          ELSE SharesSourceStrategy]_vars

\* C3's case: a load_balance(1, 2) matrix on a host or CUDA executor has
\* been converted to the HIP executor
C3_Witness ==
    /\ last.op = "convert_to" /\ fault = "ok" /\ Live("mtx") /\ Live("result")
    /\ stores["result"].exec = "hip"
    /\ StrategyOf("mtx") = load_balance(1, 2, TRUE)
    /\ StrategyOf("result") = load_balance(3, 64, FALSE)
    /\ stores["result"].strategy # stores["mtx"].strategy
    /\ stores["result"].row_ptrs = <<0, 2, 67>>

---------------------------------------------------------------------------
(* Claims about the strategy methods, checked under SpecStrategy *)

\* the ceiling of num / den for num >= 0 and den > 0, as a number
Ceiling(num, den) == (num \div den) + (IF num % den = 0 THEN 0 ELSE 1)

Smaller(a, b) == IF a <= b THEN a ELSE b

ReturnedSize == call.op = "clac_size" /\ ret.status = "ok"

ReturnedBuild(kind) ==
    call.op = "process" /\ call.s.kind = kind /\ ret.status = "ok"

PrimaryMultiple(nnz) ==
    CASE nnz < 200000 -> 8
      [] nnz >= 200000 /\ nnz < 2000000 -> 32
      [] nnz >= 2000000 -> 128

SecondaryMultiple(nnz) ==
    CASE nnz < 1000000 -> 8
      [] nnz >= 1000000 /\ nnz < 10000000 -> 16
      [] nnz >= 10000000 -> 64

\* C4: a load_balance with warp_size > 0 and cuda_strategy = true sizes srow
\* as min(ceil(nnz / warp_size), nwarps * multiple), multiple being 8 below
\* 200000 nonzeros, 32 from 200000 and 128 from 2000000.
C4_BalancedSizePrimary ==
    (ReturnedSize /\ call.s.kind = "load_balance" /\ call.s.warp_size_ > 0
         /\ call.s.cuda_strategy_)
    => ret.size = Smaller(Ceiling(call.nnz, call.s.warp_size_),
                          call.s.nwarps_ * PrimaryMultiple(call.nnz))

\* C4's case: at the threshold 200000 the group bound with multiple 32 is
\* the smaller term
C4_Witness ==
    /\ ReturnedSize /\ call.s.kind = "load_balance" /\ call.s.cuda_strategy_
    /\ call.s.warp_size_ = 32 /\ call.s.nwarps_ = 2 /\ call.nnz = 200000
    /\ ret.size = 64

\* C5 as stated: cuda_strategy = false alone selects the multiples 8 / 16 /
\* 64 with the thresholds 1000000 and 10000000.
C5_FlagAloneSelectsSecondary ==
    (ReturnedSize /\ call.s.kind = "load_balance" /\ call.s.warp_size_ > 0
         /\ ~call.s.cuda_strategy_)
    => ret.size = Smaller(Ceiling(call.nnz, call.s.warp_size_),
                          call.s.nwarps_ * SecondaryMultiple(call.nnz))

\* C5 amended: cuda_strategy = false selects the multiples 8 / 16 / 64 in a
\* build with GINKGO_HIP_PLATFORM_HCC; in any other build the flag changes
\* nothing and the multiples are 8 / 32 / 128 as for cuda_strategy = true.
C5_SecondaryNeedsHipBuild ==
    (ReturnedSize /\ call.s.kind = "load_balance" /\ call.s.warp_size_ > 0
         /\ ~call.s.cuda_strategy_)
    => ret.size = Smaller(Ceiling(call.nnz, call.s.warp_size_),
                          call.s.nwarps_ *
                              (IF hcc THEN SecondaryMultiple(call.nnz)
                               ELSE PrimaryMultiple(call.nnz)))

\* C5's case: a HIP build, cuda_strategy = false, at the threshold 1000000
C5_Witness ==
    /\ ReturnedSize /\ call.s.kind = "load_balance" /\ ~call.s.cuda_strategy_
    /\ hcc /\ call.s.warp_size_ = 32 /\ call.s.nwarps_ = 2
    /\ call.nnz = 1000000 /\ ret.size = 32

\* C6: clac_size never returns a negative size, whatever the strategy, its
\* construction parameters and nnz >= 0.
C6_SizeNonNegative == ReturnedSize => ret.size >= 0

IsNonDecreasing(t) == \A j \in 2..Len(t) : t[j] >= t[j - 1]

\* row pointers as Csr keeps them: non-decreasing, starting at 0
ValidRowPtrs(r) == Len(r) >= 1 /\ r[1] = 0 /\ IsNonDecreasing(r)

\* C7: the table load_balance::process builds from non-decreasing row
\* pointers starting at 0 is non-decreasing, and its last entry is at most
\* the number of rows.
C7_BalancedTableMonotone ==
    (ReturnedBuild("load_balance") /\ Len(call.srow) > 0
         /\ ValidRowPtrs(call.row_ptrs))
    => /\ Len(ret.srow) = Len(call.srow)
       /\ IsNonDecreasing(ret.srow)
       /\ ret.srow[Len(ret.srow)] <= Len(call.row_ptrs) - 1

\* C7's case: a table that grows from one entry to the next
C7_Witness ==
    /\ ReturnedBuild("load_balance") /\ ValidRowPtrs(call.row_ptrs)
    /\ Len(call.row_ptrs) = 4 /\ ~ret.divzero
    /\ Len(ret.srow) = 3 /\ ret.srow[1] = 1 /\ ret.srow[3] = 2

\* the bucket of row i (from 0) as C8 states it
ClaimedBucket(r, i, warp_size, k) ==
    Ceiling(Ceiling(r[i + 2], warp_size) * k, Ceiling(r[Len(r)], warp_size))

\* C8: load_balance::process leaves in srow[j] the number of rows whose
\* bucket is <= j; rows whose bucket is >= the table length are counted
\* nowhere, and what srow held before does not matter.  (The bucket is a
\* number only when the matrix has a nonzero: warp_size > 0 and
\* row_ptrs[rows] > 0.)
C8_BalancedTableCountsBuckets ==
    (ReturnedBuild("load_balance") /\ Len(call.srow) > 0
         /\ ValidRowPtrs(call.row_ptrs) /\ call.s.warp_size_ > 0
         /\ call.row_ptrs[Len(call.row_ptrs)] > 0)
    => LET k == Len(call.srow)
           rows == Len(call.row_ptrs) - 1
       IN  /\ Len(ret.srow) = k
           /\ \A j \in 0..(k - 1) :
                  ret.srow[j + 1] =
                      Cardinality({i \in 0..(rows - 1) :
                          ClaimedBucket(call.row_ptrs, i, call.s.warp_size_, k)
                              <= j})

\* C8's case: srow held other numbers before, one row falls in a bucket
\* below the table length and the last row in the bucket k, counted nowhere
C8_Witness ==
    /\ ReturnedBuild("load_balance") /\ ValidRowPtrs(call.row_ptrs)
    /\ call.s.warp_size_ = 2 /\ call.srow = <<7, 7, 7>>
    /\ call.row_ptrs = <<0, 1, 4, 5>>
    /\ ret.srow = <<0, 1, 2>>

\* C9: load_balance::process on a table of length > 0 and row pointers whose
\* last entry is 0 returns, divides by zero nowhere and leaves srow all zero.
C9_BalancedToleratesNoNonzero ==
    (call.op = "process" /\ call.s.kind = "load_balance"
         /\ ret.status # "none" /\ Len(call.srow) > 0
         /\ ValidRowPtrs(call.row_ptrs)
         /\ call.row_ptrs[Len(call.row_ptrs)] = 0)
    => /\ ret.status = "ok"
       /\ ~ret.divzero
       /\ ret.srow = [j \in 1..Len(call.srow) |-> 0]

\* the longest row of row pointers r, 0 when there is no row
LongestRow(r) ==
    LET lens == {r[i + 1] - r[i] : i \in 1..(Len(r) - 1)} \cup {0}
    IN  CHOOSE m \in lens : \A x \in lens : m >= x

\* C11: after automatical::process on row pointers, the strategy's name is
\* "load_balance" exactly when row_ptrs[rows] > 1000000 or the longest row
\* holds more than 64, and "classical" otherwise.
C11_AdaptiveNameFollowsThresholds ==
    (ReturnedBuild("automatical") /\ Len(call.row_ptrs) > 0)
    => ret.name = IF call.row_ptrs[Len(call.row_ptrs)] > 1000000
                     \/ LongestRow(call.row_ptrs) > 64
                  THEN "load_balance"
                  ELSE "classical"

\* C11's case: 1000000 stored elements and a longest row of 64 leave the
\* name "classical"
C11_Witness ==
    /\ ReturnedBuild("automatical")
    /\ call.row_ptrs = <<999936, 1000000>>
    /\ ret.name = "classical"

---------------------------------------------------------------------------
(* Claims about automatical in a store, checked under Spec *)

\* automatical::process picks classical for these row pointers
PicksClassical(r) ==
    Len(r) > 0 /\ r[Len(r)] <= 1000000 /\ LongestRow(r) <= 64

\* C12: when the automatical strategy of a store picks classical for the
\* store's row pointers (at most 1000000 stored elements, no row longer than
\* 64), srow has length 0 after the rebuild.
C12_ClassicalChoiceLeavesNoTable ==
    (Rebuilt /\ Live("mtx") /\ StrategyOf("mtx").kind = "automatical"
         /\ PicksClassical(stores["mtx"].row_ptrs))
    => Len(stores["mtx"].srow) = 0

---------------------------------------------------------------------------
(* More claims about the strategies alone, checked under SpecStrategy *)

\* C13: classical, merge_path, cusparse and sparselib size the table as 0
\* for every nnz, and their process() returns with srow as it was, having
\* read and written nothing (the row pointers are a const argument).
C13_StatelessStrategiesDoNothing ==
    /\ (ReturnedSize /\ call.s.kind \in StatelessKinds) => ret.size = 0
    /\ (call.op = "process" /\ call.s.kind \in StatelessKinds
            /\ ret.status # "none")
       => /\ ret.status = "ok"
          /\ ret.srow = call.srow
          /\ ret.name = call.s.name
          /\ ~ret.divzero /\ ~ret.oob

\* C13's case: classical::process has been called on a table that held 7s
C13_Witness ==
    /\ call.op = "process" /\ call.s.kind = "classical"
    /\ call.row_ptrs = <<0, 65>>
    /\ call.srow = <<7, 7>> /\ ret.srow = <<7, 7>>

---------------------------------------------------------------------------
(* More claims about one store, checked under Spec *)

\* a step of set_strategy(get_strategy()) on the matrix that returned: a
\* rebuild with the strategy object the matrix has already
RebuiltAgain ==
    /\ Live("mtx")
    /\ last'.op = "set_strategy" /\ fault' = "ok"
    /\ last'.arg.sid = stores["mtx"].strategy
    /\ last'.arg.s = heap[stores["mtx"].strategy]

\* C14: a rebuild that follows a rebuild, with the same row pointers, the
\* same number of stored values and the same strategy object, leaves srow
\* with the length and the contents the first rebuild left.
C14_RebuildTwiceSameTable ==
    [][(Rebuilt /\ RebuiltAgain)
       => stores'["mtx"].srow = stores["mtx"].srow]_vars

---------------------------------------------------------------------------
(* Claims about shared strategy objects, checked under SpecShare *)

\* the strategy object matrix o points to is after the step what it was
\* before
KeepsStrategyObject(o) ==
    heap'[stores[o].strategy] = heap[stores[o].strategy]

\* C15: no operation on one matrix changes the name or a parameter of a
\* strategy object another matrix points to.
C15_SharedStrategyImmutable ==
    [][\A o \in StoreIds :
           (Live(o) /\ last'.store # o) => KeepsStrategyObject(o)]_vars

---------------------------------------------------------------------------
(* More claims about moving a store, checked under SpecMigrate *)

\* C16: convert_to and move_to tell the source's strategy by its class, not
\* by its name: an automatical that an earlier build has renamed
\* "load_balance" or "classical" is still rebuilt as a new automatical on a
\* CUDA or HIP executor.
C16_RenamedAdaptiveStaysAdaptive ==
    [][(MigratedSizing /\ StrategyOf("mtx").kind = "automatical"
            /\ StrategyOf("mtx").name \in {"load_balance", "classical"}
            /\ stores["result"].exec \in {"cuda", "hip"})
       => /\ stores'["result"].strategy # stores["mtx"].strategy
          /\ heap'[stores'["result"].strategy].kind = "automatical"
          /\ heap'[stores'["result"].strategy].nwarps_ =
                 get_num_warps(stores["result"].exec)]_vars

\* C16's case: an automatical named "load_balance" by the build on its rows
\* of 65 has been converted from the omp to the CUDA executor
C16_Witness ==
    /\ last.op = "convert_to" /\ fault = "ok" /\ Live("mtx") /\ Live("result")
    /\ stores["mtx"].exec = "omp" /\ stores["result"].exec = "cuda"
    /\ StrategyOf("mtx").kind = "automatical"
    /\ StrategyOf("mtx").name = "load_balance"
    /\ StrategyOf("mtx").nwarps_ = 1
    /\ stores["result"].strategy # stores["mtx"].strategy
    /\ StrategyOf("result").kind = "automatical"
    /\ StrategyOf("result").nwarps_ = 2

---------------------------------------------------------------------------
(* Claims about the constructor from arrays, checked under Spec *)

\* the last operation was the constructor from arrays
Constructed == last.op = "create_from_arrays"

\* the constructor threw and left no matrix
ConstructionFailed ==
    fault = "OutOfBoundsError" /\ stores[last.store].state = "none"

\* C17: the constructor from arrays, given fewer row pointers than
\* rows + 1, throws at once and no matrix (and no srow built from the
\* arrays) comes to exist.
C17_ShortRowPtrsRejected ==
    (Constructed /\ last.given.row_ptrs < last.given.rows + 1)
    => ConstructionFailed

\* C17's case: two row pointers given for two rows, values and column
\* indices of equal length
C17_Witness ==
    /\ Constructed /\ ConstructionFailed
    /\ last.given.rows = 2 /\ last.given.row_ptrs = 2
    /\ last.given.values = 65 /\ last.given.col_idxs = 65

\* C18: the constructor from arrays, given value and column index arrays
\* of different lengths (more values, or more column indices), throws.
C18_UnequalLengthsRejected ==
    (Constructed /\ last.given.values # last.given.col_idxs)
    => /\ fault \in {"OutOfBoundsError", "alloc"}
       /\ stores[last.store].state = "none"

---------------------------------------------------------------------------
(* Claims about the zip iterator, checked under SpecZip *)

\* how often the tuple x stands in the arrays a1, a2
Occurrences(a1, a2, x) ==
    Cardinality({i \in 1..Len(a1) : Tuple(a1[i], a2[i]) = x})

\* the tuples of the arrays a1, a2
TuplesOf(a1, a2) == {Tuple(a1[i], a2[i]) : i \in 1..Len(a1)}

\* equal keys carry equal values
EqualOnEqualKeys(a1, a2) ==
    \A i, j \in 1..Len(a1) : a1[i] = a1[j] => a2[i] = a2[j]

\* C19: sorting the whole range of a zip iterator over the arrays A (keys)
\* and B leaves A non-decreasing and has moved B with it: the tuples
\* (A[i], B[i]) are after the sort what they were before, each as often;
\* sorted arrays whose equal keys carry equal values are left as they were.
C19_SortKeepsTuples ==
    (zip.op = "sort" /\ zip.pc = "done")
    => /\ Len(vec1) = Len(zip.from1) /\ Len(vec2) = Len(zip.from2)
       /\ IsNonDecreasing(vec1)
       /\ \A x \in TuplesOf(vec1, vec2) \cup TuplesOf(zip.from1, zip.from2) :
              Occurrences(vec1, vec2, x)
                  = Occurrences(zip.from1, zip.from2, x)
       /\ (IsNonDecreasing(zip.from1)
               /\ EqualOnEqualKeys(zip.from1, zip.from2))
          => (vec1 = zip.from1 /\ vec2 = zip.from2)

\* C19's case: the keys 3, 1, 2 with the values 10, 20, 30 have been sorted
C19_Witness ==
    /\ zip.op = "sort" /\ zip.pc = "done"
    /\ zip.from1 = <<3, 1, 2>> /\ zip.from2 = <<10, 20, 30>>
    /\ vec1 = <<1, 2, 3>> /\ vec2 = <<20, 30, 10>>

\* the array `from` with the elements at the positions p and q exchanged
Exchanged(from, p, q) ==
    [i \in 1..Len(from) |-> IF i = p + 1 THEN from[q + 1]
                            ELSE IF i = q + 1 THEN from[p + 1]
                            ELSE from[i]]

\* C20: swap on the references at the positions p and q exchanges the
\* elements at p and q in both arrays and leaves every other position of
\* both arrays as it was.
C20_SwapExchangesBothArrays ==
    zip.op = "swap"
    => /\ vec1 = Exchanged(zip.from1, zip.p, zip.q)
       /\ vec2 = Exchanged(zip.from2, zip.p, zip.q)

\* C20's case: the positions 0 and 1 of the keys 1, 2, 3 and the values 10,
\* 20, 30 have been swapped
C20_Witness ==
    /\ zip.op = "swap" /\ zip.p = 0 /\ zip.q = 1
    /\ zip.from1 = <<1, 2, 3>> /\ zip.from2 = <<10, 20, 30>>
    /\ vec1 = <<2, 1, 3>> /\ vec2 = <<20, 10, 30>>

\* the arrays a1, a2 hold at position q what the arrays b1, b2 hold at p
HoldsAt(a1, a2, q, b1, b2, p) ==
    a1[q + 1] = b1[p + 1] /\ a2[q + 1] = b2[p + 1]

\* the arrays a1, a2 are the arrays b1, b2 outside of the positions in ps
SameOutside(a1, a2, b1, b2, ps) ==
    /\ Len(a1) = Len(b1) /\ Len(a2) = Len(b2)
    /\ \A i \in 0..(Len(a1) - 1) :
           i \notin ps => HoldsAt(a1, a2, i, b1, b2, i)

\* C21: the tuple read from the reference at p is (A[p], B[p]) and a copy:
\* it stays what it was when position p is written; assigning the reference
\* at q, or the tuple, to a reference writes both arrays at that position;
\* so temp = tuple of ref_p; ref_p = ref_q; ref_q = temp leaves the arrays
\* as swap(ref_p, ref_q) leaves them, and no other position is touched.
C21_HandSwapIsSwap ==
    zip.op = "hand_swap"
    => /\ zip.temp = Tuple(zip.from1[zip.p + 1], zip.from2[zip.p + 1])
       /\ SameOutside(vec1, vec2, zip.from1, zip.from2, {zip.p, zip.q})
       /\ zip.pc = "assigned"
          => /\ HoldsAt(vec1, vec2, zip.p, zip.from1, zip.from2, zip.q)
             /\ HoldsAt(vec1, vec2, zip.q, zip.from1, zip.from2, zip.q)
       /\ zip.pc = "done"
          => /\ [vec1 |-> vec1, vec2 |-> vec2]
                    = swap(zip.from1, zip.from2, zip.p, zip.q)
             /\ vec1 = Exchanged(zip.from1, zip.p, zip.q)
             /\ vec2 = Exchanged(zip.from2, zip.p, zip.q)

\* C21's case: the positions 0 and 1 of the keys 3, 1, 2 and the values 10,
\* 20, 30 have been exchanged by the three statements
C21_Witness ==
    /\ zip.op = "hand_swap" /\ zip.pc = "done" /\ zip.p = 0 /\ zip.q = 1
    /\ zip.temp = Tuple(3, 10)
    /\ zip.from1 = <<3, 1, 2>> /\ zip.from2 = <<10, 20, 30>>
    /\ vec1 = <<1, 3, 2>> /\ vec2 = <<20, 10, 30>>

C25_EmptySortTouchesNothing ==
    (zip.op = "sort" /\ Len(zip.from1) = 0)
    => /\ ~zip.deref
       /\ vec1 = <<>> /\ vec2 = <<>>
       /\ fault = "ok"

\* C25's case: the sort of an empty range has returned
C25_Witness ==
    /\ zip.op = "sort" /\ zip.pc = "done"
    /\ zip.from1 = <<>> /\ zip.from2 = <<>>
    /\ ~zip.deref

---------------------------------------------------------------------------
(* Claims about the cursors, checked under SpecCursor *)

\* the cursor is begin + i for some i: both base cursors stand at the
\* same position of their arrays
OnArrays(it) == it.it1 = it.it2

\* the position i of the cursor begin + i
Position(it) == it.it1

\* the relation rel between the integers i and j
IntegerRelation(rel, i, j) ==
    CASE rel = "==" -> i = j
      [] rel = "!=" -> i # j
      [] rel = "<"  -> i < j
      [] rel = "<=" -> i <= j
      [] rel = ">"  -> i > j
      [] rel = ">=" -> i >= j

\* C22: cursors over the same arrays behave as their positions: the
\* difference of the cursors at j and i is j - i; each comparison operator
\* gives what it gives on the positions; c + n and n + c stand n further and
\* c - n stands n back, so (c + n) - n is c; two increments of either form
\* reach c + 2, two decrements c - 2; the prefix forms return the cursor
\* after the step and the postfix forms the cursor before it.
C22_CursorsAreIntegerPositions ==
    /\ (zip.op = "-" /\ OnArrays(zip.it) /\ OnArrays(zip.other))
       => /\ fault = "ok"
          /\ zip.diff = Position(zip.other) - Position(zip.it)
    /\ (zip.op = "compare" /\ OnArrays(zip.it) /\ OnArrays(zip.other))
       => /\ fault = "ok"
          /\ zip.truth = <<IntegerRelation(zip.rel, Position(zip.it),
                                           Position(zip.other))>>
    /\ (zip.op \in {"it + n", "n + it"} /\ OnArrays(zip.was))
       => /\ OnArrays(zip.it)
          /\ Position(zip.it) = Position(zip.was) + zip.n
          /\ minus(zip.it, zip.n) = zip.was
          /\ zip.returned = zip.it
    /\ (zip.op = "it - n" /\ OnArrays(zip.was))
       => /\ OnArrays(zip.it)
          /\ Position(zip.it) = Position(zip.was) - zip.n
          /\ plus(zip.it, zip.n) = zip.was
    /\ (zip.op \in {"++it", "it++"} /\ OnArrays(zip.was))
       => /\ zip.it = plus(zip.was, zip.i)
          /\ Position(zip.it) = Position(zip.was) + zip.i
          /\ Position(zip.returned)
                 = IF zip.op = "++it" THEN Position(zip.it)
                   ELSE Position(zip.it) - 1
    /\ (zip.op \in {"--it", "it--"} /\ OnArrays(zip.was))
       => /\ zip.it = minus(zip.was, zip.i)
          /\ Position(zip.it) = Position(zip.was) - zip.i
          /\ Position(zip.returned)
                 = IF zip.op = "--it" THEN Position(zip.it)
                   ELSE Position(zip.it) + 1

\* C22's case: the cursor at 3 minus the cursor at 1 has given 2
C22_Witness ==
    /\ zip.op = "-" /\ fault = "ok"
    /\ zip.it = make_zip_iterator(1, 1)
    /\ zip.other = make_zip_iterator(3, 3)
    /\ zip.diff = 2

\* the operations on two cursors
OnTwoCursors == zip.op \in {"-", "compare"}

TwoIncrements ==
    /\ zip.op = "it++" /\ zip.i = 2
    /\ zip.was = make_zip_iterator(0, 0) /\ zip.it = make_zip_iterator(2, 2)
    /\ zip.returned = make_zip_iterator(1, 1)

---------------------------------------------------------------------------
(* Claims about the reads of row_ptrs and about empty matrices, checked    *)
(* under Spec                                                              *)

\* C29: process() of load_balance and automatical reads row_ptrs inside
\* the array only; a rebuild on a matrix of no rows, whose row_ptrs array
\* has no element, reads no row pointer.
C29_RowPtrsReadInBounds ==
    (last.op \in {"create_from_arrays", "set_strategy"}) => ~last.oob

\* the constructor from arrays was given arrays that fit each other: as
\* many column indices as values, and rows + 1 row pointers
GivenConsistent ==
    /\ Constructed
    /\ last.given.values = last.given.col_idxs
    /\ last.given.row_ptrs = last.given.rows + 1

\* C30: the constructor from arrays accepts arrays that fit each other,
\* whatever the number of stored elements, 0 included: its checks of the
\* array sizes throw nothing.
C30_ConsistentArraysAccepted ==
    GivenConsistent => fault # "OutOfBoundsError"

\* consistent arrays with a stored element are accepted
ConsistentNonEmptyAccepted ==
    (GivenConsistent /\ last.given.values > 0) => fault # "OutOfBoundsError"

\* no rebuild of a matrix with a row pointer reads out of bounds
NonEmptyRowPtrsReadInBounds ==
    (last.op \in {"create_from_arrays", "set_strategy"}
         /\ stores[last.store].state = "live"
         /\ Len(stores[last.store].row_ptrs) > 0)
    => ~last.oob

---------------------------------------------------------------------------
(* Claims about the parameters of the adaptive strategy, checked under     *)
(* SpecStrategy                                                            *)

\* the load_balance strategy with the parameters of the strategy s
BalancedLike(s) == load_balance(s.nwarps_, s.warp_size_, s.cuda_strategy_)

\* C27: when automatical::process picks load_balance, the table it builds
\* is the table a load_balance strategy of the same nwarps, warp_size and
\* cuda_strategy builds from the same row pointers into a table of the same
\* length, for every warp_size > 0.
C27_AdaptiveBuildsAsBalanced ==
    (ReturnedBuild("automatical") /\ ret.name = "load_balance"
         /\ call.s.warp_size_ > 0)
    => \A ub \in UBOutcomes :
           LET r == load_balance_process(BalancedLike(call.s), call.row_ptrs,
                                         call.srow, ub)
           IN  (r.status = "ok" /\ ~r.divzero /\ ~r.oob) => ret.srow = r.srow

---------------------------------------------------------------------------
(* Claims about the row ranges of the load_balance table, checked under    *)
(* SpecStrategy                                                            *)

\* load_balance::process has built a table of at least one entry from the
\* row pointers of a matrix with a row and a stored element
BuiltFromNonEmpty ==
    /\ ReturnedBuild("load_balance") /\ Len(call.srow) > 0
    /\ ValidRowPtrs(call.row_ptrs)
    /\ Len(call.row_ptrs) - 1 > 0
    /\ call.row_ptrs[Len(call.row_ptrs)] > 0

\* entry j (from 0) of the table t, with 0 before the first entry and
\* `beyond` after the last
Entry(t, j, beyond) ==
    IF j < 0 THEN 0 ELSE IF j >= Len(t) THEN beyond ELSE t[j + 1]

\* the rows of the range [from, to)
RowRange(from, to) == {i \in 0..(to - 1) : i >= from}

\* C28 as stated: the ranges [table[j-1], table[j]) with table[-1] = 0 are
\* pairwise disjoint and cover the rows [0, rows): table[k-1] = rows.
C28_RangesToTableEntryCoverRows ==
    BuiltFromNonEmpty
    => LET rows == Len(call.row_ptrs) - 1
           k == Len(ret.srow)
           range(j) == RowRange(Entry(ret.srow, j - 1, rows),
                                Entry(ret.srow, j, rows))
       IN  /\ \A j1, j2 \in 0..(k - 1) :
                  j1 # j2 => range(j1) \cap range(j2) = {}
           /\ UNION {range(j) : j \in 0..(k - 1)} = 0..(rows - 1)
           /\ ret.srow[k] = rows

\* C28, amended: the table is non-decreasing with entries in [0, rows], so
\* the ranges [table[j-1], table[j]) are pairwise disjoint and cover the
\* rows [0, table[k-1]).  With warp_size > 0 the last row has bucket k and
\* is counted in no entry: table[k-1] <= rows - 1, and the last row is in
\* none of these ranges.  Read as starting rows, with table[k] = rows, the
\* ranges [table[j], table[j+1]) are pairwise disjoint and cover the rows
\* [table[0], rows), and the rows before table[0] hold no element.
C28_RangesFromTableEntryCoverRows ==
    BuiltFromNonEmpty
    => LET rows == Len(call.row_ptrs) - 1
           k == Len(ret.srow)
           range(j) == RowRange(Entry(ret.srow, j - 1, rows),
                                Entry(ret.srow, j, rows))
           started(j) == RowRange(Entry(ret.srow, j, rows),
                                  Entry(ret.srow, j + 1, rows))
       IN  /\ IsNonDecreasing(ret.srow)
           /\ ret.srow[1] >= 0 /\ ret.srow[k] <= rows
           /\ \A j1, j2 \in 0..(k - 1) :
                  j1 # j2 => range(j1) \cap range(j2) = {}
           /\ UNION {range(j) : j \in 0..(k - 1)} = 0..(ret.srow[k] - 1)
           /\ call.s.warp_size_ > 0
              => /\ ret.srow[k] <= rows - 1
                 /\ \A j1, j2 \in 0..(k - 1) :
                        j1 # j2 => started(j1) \cap started(j2) = {}
                 /\ UNION {started(j) : j \in 0..(k - 1)}
                        = RowRange(ret.srow[1], rows)
                 /\ \A i \in 0..(ret.srow[1] - 1) : call.row_ptrs[i + 2] = 0

\* C28's case: three rows of 65, 0 and 65 elements and a table of two
\* entries, built with warp_size 1: the table is [0, 2], not ending at 3
C28_Witness ==
    /\ BuiltFromNonEmpty
    /\ call.s.warp_size_ = 1
    /\ call.row_ptrs = <<0, 65, 65, 130>>
    /\ ret.srow = <<0, 2>>

\* the last entry of a table built with warp_size > 0 is never the number
\* of rows
LastEntryBelowRows ==
    (BuiltFromNonEmpty /\ call.s.warp_size_ > 0)
    => ret.srow[Len(ret.srow)] # Len(call.row_ptrs) - 1

---------------------------------------------------------------------------
(* Claims about where the arrays live, checked under SpecStage *)

\* process() has returned, on the arrays of the call and on the host
ReturnedStaged ==
    call.op = "process_on" /\ ret.status = "ok" /\ ret.host.status = "ok"

\* C26: the table load_balance and automatical build is the same wherever
\* row_ptrs and srow live: what is not on the host is copied there, the
\* table is assigned back to an srow that is not on the host, and row_ptrs
\* is left as it was.
C26_TableSameOnEveryExecutor ==
    ReturnedStaged
    => /\ ret.srow.data = ret.host.srow.data
       /\ ret.srow.exec = call.srow.exec
       /\ ret.row_ptrs = call.row_ptrs

\* neither call divided by zero or read row_ptrs out of bounds
StagedDefined ==
    ~ret.divzero /\ ~ret.oob /\ ~ret.host.divzero /\ ~ret.host.oob

\* the same of the calls whose behaviour is defined
TableSameWhereDefined ==
    (ReturnedStaged /\ StagedDefined)
    => /\ ret.srow.data = ret.host.srow.data
       /\ ret.srow.exec = call.srow.exec
       /\ ret.row_ptrs = call.row_ptrs

\* a table built for an srow on the device from row pointers on the device
StagedBothWays ==
    /\ ReturnedStaged /\ StagedDefined
    /\ call.row_ptrs.exec = "cuda" /\ call.srow.exec = "cuda"
    /\ call.s.kind = "load_balance" /\ call.s.warp_size_ = 1
    /\ call.row_ptrs.data = <<0, 65, 130>> /\ call.srow.data = <<7, 7>>
    /\ ret.srow = ArrayOn("cuda", <<0, 1>>)

===========================================================================
